---- MODULE Spec2Model ----
(***************************************************************************)
(* Model of the Powder experiment controller (powder/experiment.py):       *)
(* PowderExperiment.check_status, start_and_wait, terminate, _get_status,  *)
(* _get_manifests and _parse_manifests, driven by the answers of the       *)
(* provisioning backend (powder.rpc), which are inputs chosen freely; and   *)
(* of the session channel of a node (powder/ssh.py): SSHConnection.open,   *)
(* command and close, driven by what the spawned ssh process shows.        *)
(***************************************************************************)
EXTENDS Integers, Sequences, FiniteSets, TLC

VARIABLES
    experiment_name,     \* the experiment_name given to PowderExperiment
    status,              \* self.status
    still_provisioning,  \* self.still_provisioning
    nodes,               \* self.nodes: client_id -> [ip_address, hostname]
    manifests,           \* self._manifests: None or the list of parsed documents
    env_ok,              \* USER and CERT are set and the key file exists
    pc,                  \* position inside start_and_wait, "idle" between calls;
                         \* "new" before __init__, "exited" after its sys.exit,
                         \* "open" inside the retry loop of SSHConnection.open
    poll_count,          \* local poll_count of start_and_wait
    op,                  \* history: the public operation running or last run
    ret,                 \* history: what that operation returned
    calls,               \* history: how many backend calls and sleeps it made
    last_call,           \* history: the latest of them
    first_status,        \* history: current_status of start_and_wait (line 75)
    last_resp,           \* history: status response handled by the last step
    pre,                 \* history: node map and manifests before the last step
    ssh,                 \* SSHConnection.ssh of one node: "none" (None), "open"
                         \* (a handle not closed) or "closed" (a closed handle)
    password,            \* SSHConnection.password is set (KEYPWORD)
    retry_count,         \* local retry_count of SSHConnection.open
    leaked,              \* handles spawned by the channel, still open, that
                         \* self.ssh no longer refers to
    io,                  \* history: what the running or last channel operation
                         \* spawned, sent, waited for, closed and slept
    mpc,                 \* position of the driver (run() of example.py or of
                         \* main.py), "none" when no driver is running
    run                  \* locals of the driver and the history of its run

vars == <<experiment_name, status, still_provisioning, nodes, manifests,
          env_ok, pc, poll_count, op, ret, calls, last_call, first_status,
          last_resp, pre, ssh, password, retry_count, leaked, io, mpc, run>>

\* the fields and locals of the session channel
chanVars == <<ssh, password, retry_count, leaked, io>>

\* the position and the locals of the driver
runVars == <<mpc, run>>

-----------------------------------------------------------------------------
(* Bounds of the model *)

\* status texts of the classifier specification are built from at most
\* MaxFrags fragments
MaxFrags == 3

\* experiment names of the constructor specification have at most MaxNameLen
\* characters
MaxNameLen == 18

\* descriptor lists of the parser specification have at most MaxDescs entries
MaxDescs == 3

\* the channel specification follows a channel until it has left MaxLeaked
\* handles open behind it
MaxLeaked == 2

-----------------------------------------------------------------------------
(* Constants of PowderExperiment *)

EXPERIMENT_NOT_STARTED == "NotStarted"
EXPERIMENT_PROVISIONING == "Provisioning"
EXPERIMENT_PROVISIONED == "Provisioned"
EXPERIMENT_READY == "Ready"
EXPERIMENT_FAILED == "Failed"
EXPERIMENT_NULL == "Null"
EXPERIMENT_UNKNOWN == "Unknown"

POLL_INTERVAL_S == 20
PROVISION_TIMEOUT_S == 1800
MAX_NAME_LENGTH == 16

\* self._poll_count_max
poll_count_max == PROVISION_TIMEOUT_S \div POLL_INTERVAL_S

\* NameTooLong with the bound of the class docstring ("Must be less than 16
\* characters")
NameTooLong_Docstring(name) == Len(name) >= MAX_NAME_LENGTH

\* __init__, line 48: len(experiment_name) > 16
NameTooLong(name) == Len(name) > MAX_NAME_LENGTH

\* result codes of powder.rpc as the controller tells them apart
RESPONSE_SUCCESS == "SUCCESS"
RESPONSE_BADARGS == "BADARGS"
RESPONSE_ERROR == "ERROR"
RESPONSE_OTHER == "OTHER"

-----------------------------------------------------------------------------
(* Texts are sequences of characters *)

PREFIX_READY == <<"S", "t", "a", "t", "u", "s", ":", " ", "r", "e", "a", "d", "y">>
PREFIX_PROVISIONING == <<"S", "t", "a", "t", "u", "s", ":", " ", "p", "r", "o", "v", "i", "s", "i", "o", "n", "i", "n", "g">>
PREFIX_PROVISIONED == <<"S", "t", "a", "t", "u", "s", ":", " ", "p", "r", "o", "v", "i", "s", "i", "o", "n", "e", "d">>
PREFIX_FAILED == <<"S", "t", "a", "t", "u", "s", ":", " ", "f", "a", "i", "l", "e", "d">>
MARKER_UUID == <<"U", "U", "I", "D", ":">>
NO_SUCH_EXPERIMENT == <<"N", "o", " ", "s", "u", "c", "h", " ", "e", "x", "p", "e", "r", "i", "m", "e", "n", "t">>

Whitespace == {" ", "\n"}

\* str.strip()
Strip(s) ==
    LET keep == {i \in 1..Len(s) : s[i] \notin Whitespace}
        lo == CHOOSE i \in keep : \A j \in keep : i <= j
        hi == CHOOSE i \in keep : \A j \in keep : j <= i
    IN  IF keep = {} THEN <<>> ELSE SubSeq(s, lo, hi)

\* str.startswith(p)
StartsWith(s, p) == Len(s) >= Len(p) /\ SubSeq(s, 1, Len(p)) = p

\* sub in s
Contains(s, sub) ==
    \E i \in 1..(Len(s) - Len(sub) + 1) : SubSeq(s, i, i + Len(sub) - 1) = sub

-----------------------------------------------------------------------------
(* Manifests *)

\* a node descriptor of a manifest: isdict is FALSE for an entry that is no
\* dictionary; client_id, name and ipv4 are "" when missing or empty; host is
\* "dict", "missing" or "scalar"
Desc(isdict, client_id, host, name, ipv4) ==
    [isdict |-> isdict, client_id |-> client_id, host |-> host,
     name |-> name, ipv4 |-> ipv4]

GoodDeploy == Desc(TRUE, "deploy-node", "dict", "pc1.emulab", "10.0.0.1")
GoodOther == Desc(TRUE, "node-2", "dict", "pc2.emulab", "10.0.0.2")
NoClientId == Desc(TRUE, "", "dict", "pc3.emulab", "10.0.0.3")
NoHost == Desc(TRUE, "node-4", "missing", "", "")
NoIpv4 == Desc(TRUE, "node-5", "dict", "pc5.emulab", "")
NotADict == Desc(FALSE, "", "missing", "", "")

\* a parsed manifest document: kind is "norspec" (no 'rspec' key), "nullrspec"
\* (the 'rspec' element is empty, so its value is None), "nonode" (no 'node'
\* key), "single" (the 'node' value is one descriptor, d) or "list" (a list
\* of descriptors, ds)
Doc(kind, d, ds) == [kind |-> kind, d |-> d, ds |-> ds]

DocList(ds) == Doc("list", NotADict, ds)
DocSingle(d) == Doc("single", d, <<>>)
DocNoRspec == Doc("norspec", NotADict, <<>>)
DocNullRspec == Doc("nullrspec", NotADict, <<>>)
DocNoNode == Doc("nonode", NotADict, <<>>)

\* self._manifests
NoManifests == [some |-> FALSE, docs |-> <<>>]
SomeManifests(docs) == [some |-> TRUE, docs |-> docs]

\* answers of prpc.get_experiment_manifests: a result code and, on success,
\* an output that decodes (json.loads, xmltodict.parse) or does not
ManifestResponse(code, decodes, docs) ==
    [code |-> code, decodes |-> decodes, docs |-> docs]

ManifestResponses ==
    { ManifestResponse(RESPONSE_ERROR, FALSE, <<>>),
      ManifestResponse(RESPONSE_SUCCESS, FALSE, <<>>),
      ManifestResponse(RESPONSE_SUCCESS, TRUE, <<DocList(<<GoodDeploy>>)>>),
      ManifestResponse(RESPONSE_SUCCESS, TRUE,
                       <<DocNoRspec, DocList(<<NoClientId, NoHost>>)>>),
      ManifestResponse(RESPONSE_SUCCESS, TRUE,
                       <<DocSingle(GoodOther), DocNullRspec>>) }

\* the empty node map
NoNodes == <<>>

\* Node(client_id, ip_address, hostname); SSHConnection.__init__ raises
\* when the environment lacks USER or CERT
NodeRaises(ok) == ~ok

\* Node with the address and the host name passed the wrong way round
Node_Swapped(d) == [ip_address |-> d.name, hostname |-> d.ipv4]

Node(d) == [ip_address |-> d.ipv4, hostname |-> d.name]

\* ParseNodes with "continue" taken for "break": a malformed descriptor ends
\* the node loop
RECURSIVE ParseNodes_StopsAtMalformed(_, _, _)
ParseNodes_StopsAtMalformed(ns, ds, ok) ==
    IF ds = <<>> THEN ns
    ELSE LET d == Head(ds)
             skip == \/ ~d.isdict
                     \/ d.client_id = ""
                     \/ d.host # "dict"
                     \/ d.name = ""
                     \/ d.ipv4 = ""
                     \/ NodeRaises(ok)
         IN  IF skip THEN ns
             ELSE ParseNodes_StopsAtMalformed(
                      [k \in DOMAIN ns \cup {d.client_id} |->
                          IF k = d.client_id THEN Node(d) ELSE ns[k]],
                      Tail(ds), ok)

\* one pass of the node loop of _parse_manifests over the descriptors ds
RECURSIVE ParseNodes(_, _, _)
ParseNodes(ns, ds, ok) ==
    IF ds = <<>> THEN ns
    ELSE LET d == Head(ds)
             skip == \/ ~d.isdict
                     \/ d.client_id = ""
                     \/ d.host # "dict"
                     \/ d.name = ""
                     \/ d.ipv4 = ""
                     \/ NodeRaises(ok)
             ns2 == IF skip THEN ns
                    ELSE [k \in DOMAIN ns \cup {d.client_id} |->
                             IF k = d.client_id THEN Node(d) ELSE ns[k]]
         IN  ParseNodes(ns2, Tail(ds), ok)

\* NodesData with the wrapping of lines 237-239 forgotten: the loop of line
\* 243 then runs over the keys of the one descriptor, which are no
\* dictionaries
NodesData_NoWrap(doc) ==
    IF doc.kind = "single" THEN <<NotADict, NotADict>> ELSE doc.ds

\* _parse_manifests, lines 234-239: nodes_data, a single descriptor wrapped
\* into a list
NodesData(doc) == IF doc.kind = "single" THEN <<doc.d>> ELSE doc.ds

\* ParseDocs with "continue" taken for "return" at line 225: a document
\* without 'rspec' ends the parse
RECURSIVE ParseDocs_StopsAtNoRspec(_, _, _)
ParseDocs_StopsAtNoRspec(ns, docs, ok) ==
    IF docs = <<>> THEN [nodes |-> ns, raised |-> FALSE]
    ELSE LET doc == Head(docs)
         IN  CASE doc.kind = "norspec" -> [nodes |-> ns, raised |-> FALSE]
               [] doc.kind = "nullrspec" -> [nodes |-> ns, raised |-> TRUE]
               [] doc.kind = "nonode" ->
                    ParseDocs_StopsAtNoRspec(ns, Tail(docs), ok)
               [] OTHER ->
                    ParseDocs_StopsAtNoRspec(
                        ParseNodes(ns, NodesData(doc), ok), Tail(docs), ok)

\* the document loop of _parse_manifests: the node map and whether the loop
\* raised ('node' not in rspec_data with rspec_data None)
RECURSIVE ParseDocs(_, _, _)
ParseDocs(ns, docs, ok) ==
    IF docs = <<>> THEN [nodes |-> ns, raised |-> FALSE]
    ELSE LET doc == Head(docs)
         IN  CASE doc.kind = "norspec" -> ParseDocs(ns, Tail(docs), ok)
               [] doc.kind = "nullrspec" -> [nodes |-> ns, raised |-> TRUE]
               [] doc.kind = "nonode" -> ParseDocs(ns, Tail(docs), ok)
               [] OTHER ->
                    ParseDocs(ParseNodes(ns, NodesData(doc), ok), Tail(docs), ok)

\* self._parse_manifests()
ParseManifests(mf, ns, ok) ==
    IF ~mf.some \/ mf.docs = <<>> THEN [nodes |-> ns, raised |-> FALSE]
    ELSE ParseDocs(ns, mf.docs, ok)

\* self._get_manifests(): the new value of self._manifests
GetManifests(m) ==
    IF m.code = RESPONSE_SUCCESS /\ m.decodes THEN SomeManifests(m.docs)
    ELSE NoManifests

\* self._get_manifests()._parse_manifests() on controller fields c
FetchAndParse(c, m, ok) ==
    LET mf == GetManifests(m)
        p == ParseManifests(mf, c.nodes, ok)
    IN  [c |-> [c EXCEPT !.manifests = mf, !.nodes = p.nodes],
         raised |-> p.raised]

-----------------------------------------------------------------------------
(* Answers of the backend *)

F_Status == <<"S", "t", "a", "t", "u", "s", ":", " ">>
F_ready == <<"r", "e", "a", "d", "y">>
F_provision == <<"p", "r", "o", "v", "i", "s", "i", "o", "n">>
F_ing == <<"i", "n", "g">>
F_ed == <<"e", "d">>
F_failed == <<"f", "a", "i", "l", "e", "d">>
F_UU == <<"U", "U">>
F_ID == <<"I", "D", ":">>
F_sp == <<" ">>
F_nl == <<"\n">>
F_x == <<"x">>

TEXT_READY == F_Status \o F_ready \o F_nl
TEXT_PROVISIONING == F_Status \o F_provision \o F_ing \o F_nl
TEXT_PROVISIONED == F_Status \o F_provision \o F_ed \o F_nl
TEXT_FAILED == F_Status \o F_failed \o F_nl
TEXT_IN_PROGRESS == F_x \o F_nl \o F_UU \o F_ID \o F_sp \o F_x \o F_nl
TEXT_OTHER == F_x \o F_nl
TEXT_NO_SUCH == F_x \o F_sp \o NO_SUCH_EXPERIMENT \o F_nl

\* the status texts the backend answers with in Spec
StatusTexts ==
    {TEXT_READY, TEXT_PROVISIONING, TEXT_PROVISIONED, TEXT_FAILED,
     TEXT_IN_PROGRESS, TEXT_OTHER}

\* the pieces the status texts of ClassifySpec are made of
Fragments ==
    {F_Status \o F_ready, F_Status \o F_provision, F_Status \o F_failed,
     F_Status, F_ing, F_ed, F_UU, F_ID, F_UU \o F_ID, F_sp, F_nl, F_x}

\* every text made of exactly n fragments
RECURSIVE TextsOf(_)
TextsOf(n) ==
    IF n = 0 THEN {<<>>}
    ELSE {t \o f : t \in TextsOf(n - 1), f \in Fragments}

\* every text made of at most MaxFrags fragments
BoundedTexts == UNION {TextsOf(n) : n \in 0..MaxFrags}

\* an answer of prpc.get_experiment_status: the result code and the payload,
\* whose 'output' text may be absent
StatusResponse(code, hasOutput, output) ==
    [code |-> code, hasOutput |-> hasOutput, output |-> output]

NoResponse == StatusResponse("none", FALSE, <<>>)

StatusResponses ==
    { StatusResponse(RESPONSE_SUCCESS, TRUE, t) : t \in StatusTexts }
    \cup { StatusResponse(RESPONSE_BADARGS, FALSE, <<>>),
           StatusResponse(RESPONSE_ERROR, TRUE, TEXT_NO_SUCH),
           StatusResponse(RESPONSE_ERROR, TRUE, TEXT_OTHER),
           StatusResponse(RESPONSE_ERROR, FALSE, <<>>),
           StatusResponse(RESPONSE_OTHER, FALSE, <<>>) }

\* answers of prpc.terminate_experiment and prpc.start_experiment
CallResponse(code, hasOutput) == [code |-> code, hasOutput |-> hasOutput]

TerminateResponses ==
    { CallResponse(RESPONSE_SUCCESS, TRUE),
      CallResponse(RESPONSE_ERROR, TRUE),
      CallResponse(RESPONSE_ERROR, FALSE) }

StartResponses ==
    { CallResponse(RESPONSE_SUCCESS, TRUE),
      CallResponse(RESPONSE_ERROR, TRUE) }

\* response.get('output', '')
OutputOf(r) == IF r.hasOutput THEN r.output ELSE <<>>

-----------------------------------------------------------------------------
(* The controller: its fields as a record c *)

Fields ==
    [status |-> status, still_provisioning |-> still_provisioning,
     nodes |-> nodes, manifests |-> manifests]

\* not self.nodes
NodesEmpty(c) == DOMAIN c.nodes = {}

\* "No such experiment" in text, for each text an error answer carries
SaysNoSuch == [t \in {<<>>, TEXT_OTHER, TEXT_NO_SUCH} |->
                  Contains(t, NO_SUCH_EXPERIMENT)]

\* _get_status, line 299: the experiment does not exist
NoSuchExperiment(r) ==
    \/ r.code = RESPONSE_BADARGS
    \/ r.code = RESPONSE_ERROR /\ SaysNoSuch[OutputOf(r)]

\* Classify with the strip() of line 316 forgotten
Classify_NoStrip(output) ==
    IF StartsWith(output, PREFIX_READY) THEN EXPERIMENT_READY
    ELSE IF StartsWith(output, PREFIX_PROVISIONING) THEN EXPERIMENT_PROVISIONING
    ELSE IF StartsWith(output, PREFIX_PROVISIONED) THEN EXPERIMENT_PROVISIONED
    ELSE IF StartsWith(output, PREFIX_FAILED) THEN EXPERIMENT_FAILED
    ELSE IF Contains(output, MARKER_UUID) THEN EXPERIMENT_PROVISIONING
    ELSE EXPERIMENT_UNKNOWN

\* _get_status, lines 322-355: new_status decided by the output text
Classify(output) ==
    LET s == Strip(output)
    IN  IF StartsWith(s, PREFIX_READY) THEN EXPERIMENT_READY
        ELSE IF StartsWith(s, PREFIX_PROVISIONING) THEN EXPERIMENT_PROVISIONING
        ELSE IF StartsWith(s, PREFIX_PROVISIONED) THEN EXPERIMENT_PROVISIONED
        ELSE IF StartsWith(s, PREFIX_FAILED) THEN EXPERIMENT_FAILED
        ELSE IF Contains(s, MARKER_UUID) THEN EXPERIMENT_PROVISIONING
        ELSE EXPERIMENT_UNKNOWN

\* Classify on every status text of the model
ClassOf == [t \in StatusTexts \cup BoundedTexts |-> Classify(t)]

\* Classify on the status texts of Spec
ClassOfStatusTexts == [t \in StatusTexts |-> Classify(t)]

\* new_status of _get_status for the text output
NewStatus(output) ==
    IF output \in StatusTexts THEN ClassOfStatusTexts[output]
    ELSE ClassOf[output]

\* NeedsManifests with the test of line 329 forgotten
NeedsManifests_Always(c) == TRUE

\* _get_status, line 329: the manifests are fetched only into an empty node map
NeedsManifests(c) == NodesEmpty(c)

\* UnknownFrame clearing the node data as the "no such experiment" branch does
UnknownFrame_Clears(c) ==
    [c EXCEPT !.status = EXPERIMENT_UNKNOWN, !.still_provisioning = FALSE,
              !.nodes = NoNodes, !.manifests = NoManifests]

\* _get_status, lines 309-310: a status call that failed otherwise
UnknownFrame(c) ==
    [c EXCEPT !.status = EXPERIMENT_UNKNOWN, !.still_provisioning = FALSE]

\* _get_status, lines 322 and 329: the manifest call is issued (the text says
\* ready and the node map is empty)
FetchesManifests(c, r) ==
    /\ ~NoSuchExperiment(r)
    /\ r.code = RESPONSE_SUCCESS
    /\ NeedsManifests(c)
    /\ NewStatus(OutputOf(r)) = EXPERIMENT_READY

\* GetStatus with lines 303-304 forgotten: a vanished experiment keeps its
\* nodes and manifests
GetStatus_KeepsNodes(c, r, m, ok) ==
    IF NoSuchExperiment(r)
    THEN [c |-> [c EXCEPT !.status = EXPERIMENT_NOT_STARTED,
                          !.still_provisioning = FALSE],
          fetched |-> FALSE]
    ELSE IF r.code # RESPONSE_SUCCESS
    THEN [c |-> [c EXCEPT !.status = EXPERIMENT_UNKNOWN,
                          !.still_provisioning = FALSE],
          fetched |-> FALSE]
    ELSE LET new_status == NewStatus(OutputOf(r))
             f == FetchAndParse(c, m, ok)
         IN  IF new_status = EXPERIMENT_READY /\ NodesEmpty(c)
             THEN [c |-> [f.c EXCEPT !.status = IF f.raised
                                                 THEN EXPERIMENT_FAILED
                                                 ELSE EXPERIMENT_READY,
                                     !.still_provisioning = FALSE],
                   fetched |-> TRUE]
             ELSE [c |-> [c EXCEPT !.status = new_status,
                                   !.still_provisioning =
                                       new_status \in {EXPERIMENT_PROVISIONING,
                                                       EXPERIMENT_PROVISIONED}],
                   fetched |-> FALSE]

\* self._get_status() on fields c with status answer r and, when the manifest
\* call is issued, manifest answer m: the fields, and whether it was issued
GetStatus(c, r, m, ok) ==
    IF NoSuchExperiment(r)
    THEN [c |-> [c EXCEPT !.status = EXPERIMENT_NOT_STARTED,
                          !.still_provisioning = FALSE,
                          !.nodes = NoNodes,
                          !.manifests = NoManifests],
          fetched |-> FALSE]
    ELSE IF r.code # RESPONSE_SUCCESS
    THEN [c |-> UnknownFrame(c), fetched |-> FALSE]
    ELSE LET new_status == NewStatus(OutputOf(r))
             f == FetchAndParse(c, m, ok)
         IN  IF new_status = EXPERIMENT_READY /\ NeedsManifests(c)
             THEN [c |-> [f.c EXCEPT !.status = IF f.raised
                                                 THEN EXPERIMENT_FAILED
                                                 ELSE EXPERIMENT_READY,
                                     !.still_provisioning = FALSE],
                   fetched |-> TRUE]
             ELSE [c |-> [c EXCEPT !.status = new_status,
                                   !.still_provisioning =
                                       new_status \in {EXPERIMENT_PROVISIONING,
                                                       EXPERIMENT_PROVISIONED}],
                   fetched |-> FALSE]

\* Terminate marking the experiment Failed when the teardown call fails
Terminate_FailureMarksFailed(c, t) ==
    IF t.code = RESPONSE_SUCCESS
    THEN [c |-> [c EXCEPT !.status = EXPERIMENT_NULL], raised |-> FALSE]
    ELSE [c |-> [c EXCEPT !.status = EXPERIMENT_FAILED],
          raised |-> ~t.hasOutput]

\* Terminate emptying the node map of the experiment it tore down
Terminate_ClearsNodes(c, t) ==
    IF t.code = RESPONSE_SUCCESS
    THEN [c |-> [c EXCEPT !.status = EXPERIMENT_NULL, !.nodes = NoNodes],
          raised |-> FALSE]
    ELSE [c |-> c, raised |-> ~t.hasOutput]

\* self.terminate(): the fields, and whether line 167 raised (KeyError on a
\* failure payload without 'output')
Terminate(c, t) ==
    IF t.code = RESPONSE_SUCCESS
    THEN [c |-> [c EXCEPT !.status = EXPERIMENT_NULL], raised |-> FALSE]
    ELSE [c |-> c, raised |-> ~t.hasOutput]

\* start_and_wait, lines 77-101: where control goes after the first check
Dispatch(c) ==
    IF c.status = EXPERIMENT_READY
    THEN IF NodesEmpty(c) THEN "refetch" ELSE "return"
    ELSE IF c.status \in {EXPERIMENT_PROVISIONING, EXPERIMENT_PROVISIONED}
    THEN "proceed"
    ELSE IF c.status = EXPERIMENT_FAILED THEN "terminate"
    ELSE IF c.status \in {EXPERIMENT_NOT_STARTED, EXPERIMENT_NULL,
                          EXPERIMENT_UNKNOWN}
    THEN "proceed"
    ELSE "return"

\* NeedsStart with the test of line 104 forgotten
NeedsStart_Always(st) == TRUE

\* start_and_wait, line 104: the start call is needed
NeedsStart(st) ==
    st # EXPERIMENT_PROVISIONING /\ st # EXPERIMENT_PROVISIONED

\* LoopCond with the poll bound of line 124 forgotten
LoopCond_Unbounded(st, n) ==
    st \in {EXPERIMENT_PROVISIONING, EXPERIMENT_PROVISIONED,
            EXPERIMENT_NOT_STARTED, EXPERIMENT_UNKNOWN}

\* start_and_wait, line 124: the wait loop goes on
LoopCond(st, n) ==
    /\ st \in {EXPERIMENT_PROVISIONING, EXPERIMENT_PROVISIONED,
               EXPERIMENT_NOT_STARTED, EXPERIMENT_UNKNOWN}
    /\ n < poll_count_max

\* start_and_wait, lines 80-87: the re-fetch of the already-ready path
RefetchReady(c, m, ok) ==
    LET f == FetchAndParse(c, m, ok)
    IN  IF f.raised THEN [f.c EXCEPT !.status = EXPERIMENT_FAILED] ELSE f.c

\* FinalCheck with the override of lines 153-154 forgotten: a timeout leaves
\* the state as it is
FinalCheck_NoOverride(c, m, ok) ==
    IF c.status = EXPERIMENT_READY
    THEN IF NodesEmpty(c)
         THEN LET f == FetchAndParse(c, m, ok)
              IN  IF f.raised \/ NodesEmpty(f.c)
                  THEN [f.c EXCEPT !.status = EXPERIMENT_FAILED]
                  ELSE f.c
         ELSE c
    ELSE c

\* start_and_wait, lines 135-154: the final status check after the wait loop
FinalCheck(c, m, ok) ==
    IF c.status = EXPERIMENT_READY
    THEN IF NodesEmpty(c)
         THEN LET f == FetchAndParse(c, m, ok)
              IN  IF f.raised \/ NodesEmpty(f.c)
                  THEN [f.c EXCEPT !.status = EXPERIMENT_FAILED]
                  ELSE f.c
         ELSE c
    ELSE IF c.status = EXPERIMENT_FAILED THEN c
    ELSE IF c.status \notin {EXPERIMENT_FAILED, EXPERIMENT_NULL}
         THEN [c EXCEPT !.status = EXPERIMENT_FAILED]
         ELSE c

-----------------------------------------------------------------------------
(* History of the calls an operation issues *)

NoCalls == [status |-> 0, manifest |-> 0, start |-> 0, terminate |-> 0,
            sleep |-> 0, slept_s |-> 0, start_failed |-> 0,
            terminate_failed |-> 0]

\* one more call of kind k
Count(cs, k) == [cs EXCEPT ![k] = @ + 1]

\* time.sleep(self.POLL_INTERVAL_S)
Sleep(cs) == [cs EXCEPT !.sleep = @ + 1, !.slept_s = @ + POLL_INTERVAL_S]

\* one more call of kind k ("start" or "terminate") answered with code
CountAnswer(cs, k, code) ==
    IF code = RESPONSE_SUCCESS THEN Count(cs, k)
    ELSE IF k = "start" THEN Count(Count(cs, k), "start_failed")
    ELSE Count(Count(cs, k), "terminate_failed")

\* the calls of one _get_status added to cs
CountStatus(cs, fetched) ==
    IF fetched THEN Count(Count(cs, "status"), "manifest")
    ELSE Count(cs, "status")

LastOfStatus(fetched) == IF fetched THEN "manifest" ELSE "status"

Pre == [nodes |-> nodes, manifests |-> manifests]

\* how a transfer process can end: it exits with a status and an output, or
\* pexpect.run raises
Transfer(kind, exit_status, output) ==
    [kind |-> kind, exit_status |-> exit_status, output |-> output]

NoTransfer == Transfer("none", 0, "none")

\* what a channel operation has done so far: nothing.  given is the
\* expectedline argument of command(), waited_for the pattern of its race and
\* race what the race of command() or close() ended with; runs counts the
\* transfer processes run and transfer is how the last one ended
NoIo == [spawns |-> 0, attempts |-> <<>>, sends |-> <<>>, expects |-> 0,
         given |-> "none", waited_for |-> "none", race |-> "none",
         closes |-> 0, sleeps |-> <<>>, runs |-> 0, transfer |-> NoTransfer]

\* no driver is running: the controller and the channel are called freely
NoDriver ==
    /\ mpc = "none"
    /\ run = [driver |-> "none"]

\* the state after SSHConnection.__init__, line 49; pw tells whether KEYPWORD
\* is set
ChanInit(pw) ==
    /\ ssh = "none"
    /\ password = pw
    /\ retry_count = 0
    /\ leaked = 0
    /\ io = NoIo

-----------------------------------------------------------------------------
(* The state after PowderExperiment.__init__; the environment is whatever   *)
(* the process was started with                                            *)

\* an experiment name the constructor accepts
DefaultName == <<"e", "x", "p">>

Init ==
    /\ ChanInit(FALSE)
    /\ NoDriver
    /\ experiment_name = DefaultName
    /\ status = EXPERIMENT_NOT_STARTED
    /\ still_provisioning = FALSE
    /\ nodes = NoNodes
    /\ manifests = NoManifests
    /\ env_ok \in BOOLEAN
    /\ pc = "idle"
    /\ poll_count = 0
    /\ op = "none"
    /\ ret = "none"
    /\ calls = NoCalls
    /\ last_call = "none"
    /\ first_status = "none"
    /\ last_resp = NoResponse
    /\ pre = Pre

SetFields(c) ==
    /\ status' = c.status
    /\ still_provisioning' = c.still_provisioning
    /\ nodes' = c.nodes
    /\ manifests' = c.manifests

\* the manifest answers a step has to choose from: one when no call is issued
ManifestChoices(fetches) ==
    IF fetches THEN ManifestResponses
    ELSE {ManifestResponse(RESPONSE_ERROR, FALSE, <<>>)}

\* start_and_wait returns: the local poll_count is gone
Return(c) ==
    /\ pc' = "idle"
    /\ poll_count' = 0
    /\ ret' = c.status

\* the answers one _get_status may meet on fields c
StatusAnswers(c, rs) ==
    {x \in rs \X ManifestResponses :
        x[2] \in ManifestChoices(FetchesManifests(c, x[1]))}

\* check_status() answered with one of the pairs xs of a status answer and a
\* manifest answer
CheckStatusAnswered(xs) ==
    /\ pc = "idle"
    /\ \E x \in xs :
          LET g == GetStatus(Fields, x[1], x[2], env_ok)
          IN  /\ SetFields(g.c)
              /\ ret' = g.c.status
              /\ calls' = CountStatus(NoCalls, g.fetched)
              /\ last_call' = LastOfStatus(g.fetched)
              /\ last_resp' = x[1]
    /\ op' = "check_status"
    /\ first_status' = "none"
    /\ pre' = Pre
    /\ UNCHANGED <<runVars, chanVars, experiment_name, env_ok, pc, poll_count>>

\* check_status() with an answer from rs
CheckStatusWith(rs) == CheckStatusAnswered(StatusAnswers(Fields, rs))

CheckStatus == CheckStatusWith(StatusResponses)

\* terminate() called by the user of the controller
TerminateOp ==
    /\ pc = "idle"
    /\ \E t \in TerminateResponses :
          LET x == Terminate(Fields, t)
          IN  /\ SetFields(x.c)
              /\ ret' = IF x.raised THEN "raised" ELSE x.c.status
              /\ calls' = CountAnswer(NoCalls, "terminate", t.code)
    /\ op' = "terminate"
    /\ last_call' = "terminate"
    /\ first_status' = "none"
    /\ last_resp' = NoResponse
    /\ pre' = Pre
    /\ UNCHANGED <<runVars, chanVars, experiment_name, env_ok, pc, poll_count>>

\* start_and_wait, lines 75-101: the first status check and the dispatch
SAW_Check ==
    /\ pc = "idle"
    /\ \E x \in StatusAnswers(Fields, StatusResponses) :
          LET g == GetStatus(Fields, x[1], x[2], env_ok)
              c == g.c
              d == Dispatch(c)
          IN  /\ SetFields(c)
              /\ first_status' = c.status
              /\ calls' = CountStatus(NoCalls, g.fetched)
              /\ last_call' = LastOfStatus(g.fetched)
              /\ last_resp' = x[1]
              /\ IF d = "return" THEN Return(c)
                 ELSE /\ pc' = IF d = "proceed"
                               THEN IF NeedsStart(c.status) THEN "start" ELSE "wait"
                               ELSE d
                      /\ poll_count' = 0
                      /\ ret' = "none"
    /\ op' = "start_and_wait"
    /\ pre' = Pre
    /\ UNCHANGED <<runVars, chanVars, experiment_name, env_ok>>

\* start_and_wait, lines 80-88: the node map is empty though the state is Ready
SAW_Refetch ==
    /\ pc = "refetch"
    /\ \E m \in ManifestResponses :
          LET c == RefetchReady(Fields, m, env_ok)
          IN  /\ SetFields(c)
              /\ Return(c)
    /\ calls' = Count(calls, "manifest")
    /\ last_call' = "manifest"
    /\ last_resp' = NoResponse
    /\ pre' = Pre
    /\ UNCHANGED <<runVars, chanVars, experiment_name, env_ok, op, first_status>>

\* start_and_wait, line 94: the cleanup of a failed experiment
SAW_Terminate ==
    /\ pc = "terminate"
    /\ \E t \in TerminateResponses :
          LET x == Terminate(Fields, t)
          IN  /\ SetFields(x.c)
              /\ IF x.raised
                 THEN /\ pc' = "idle"
                      /\ ret' = "raised"
                 ELSE /\ pc' = IF NeedsStart(x.c.status) THEN "start" ELSE "wait"
                      /\ ret' = "none"
              /\ calls' = CountAnswer(calls, "terminate", t.code)
    /\ last_call' = "terminate"
    /\ last_resp' = NoResponse
    /\ pre' = Pre
    /\ UNCHANGED <<runVars, chanVars, experiment_name, env_ok, poll_count, op, first_status>>

\* StartFailed with the result code of the start call ignored
StartFailed_Ignored(s) == FALSE

\* start_and_wait, line 109: the start call was refused
StartFailed(s) == s.code # RESPONSE_SUCCESS

\* start_and_wait, lines 105-112: the start call
SAW_Start ==
    /\ pc = "start"
    /\ \E s \in StartResponses :
          /\ IF StartFailed(s)
             THEN LET c == [Fields EXCEPT !.status = EXPERIMENT_FAILED]
                  IN  SetFields(c) /\ Return(c)
             ELSE /\ pc' = "poststart"
                  /\ UNCHANGED <<status, still_provisioning, nodes, manifests,
                                 poll_count, ret>>
          /\ calls' = CountAnswer(calls, "start", s.code)
    /\ last_call' = "start"
    /\ last_resp' = NoResponse
    /\ pre' = Pre
    /\ UNCHANGED <<runVars, chanVars, experiment_name, env_ok, op, first_status>>

\* PostStartFailed with the test of line 116 forgotten
PostStartFailed_Ignored(st) == FALSE

\* start_and_wait, line 116: the experiment failed right after the start call
PostStartFailed(st) == st = EXPERIMENT_FAILED

\* lines 118-121 with the start call taken up again while the experiment
\* does not show up
AfterPostStart_Restarts(st) ==
    IF st \in {EXPERIMENT_NOT_STARTED, EXPERIMENT_UNKNOWN} THEN "start"
    ELSE "wait"

\* start_and_wait, lines 118-121: what follows the status check after the
\* start call is the wait loop, whatever state it showed
AfterPostStart(st) == "wait"

\* start_and_wait, lines 114-118: the status check right after the start call
SAW_PostStart ==
    /\ pc = "poststart"
    /\ \E x \in StatusAnswers(Fields, StatusResponses) :
          LET g == GetStatus(Fields, x[1], x[2], env_ok)
              c == g.c
          IN  /\ SetFields(c)
              /\ calls' = CountStatus(calls, g.fetched)
              /\ last_call' = LastOfStatus(g.fetched)
              /\ last_resp' = x[1]
              /\ IF PostStartFailed(c.status) THEN Return(c)
                 ELSE /\ pc' = AfterPostStart(c.status)
                      /\ UNCHANGED <<poll_count, ret>>
    /\ pre' = Pre
    /\ UNCHANGED <<runVars, chanVars, experiment_name, env_ok, op, first_status>>

\* start_and_wait, lines 124-132: one turn of the wait loop
SAW_Poll ==
    /\ pc = "wait"
    /\ LoopCond(status, poll_count)
    /\ \E x \in StatusAnswers(Fields, StatusResponses) :
          LET g == GetStatus(Fields, x[1], x[2], env_ok)
          IN  /\ SetFields(g.c)
              /\ calls' = CountStatus(Sleep(calls), g.fetched)
              /\ last_call' = LastOfStatus(g.fetched)
              /\ last_resp' = x[1]
    /\ poll_count' = poll_count + 1
    /\ pre' = Pre
    /\ UNCHANGED <<runVars, chanVars, experiment_name, env_ok, pc, op, ret, first_status>>

\* start_and_wait, lines 135-157: the wait loop is left
SAW_Final ==
    /\ pc = "wait"
    /\ ~LoopCond(status, poll_count)
    /\ LET refetch == status = EXPERIMENT_READY /\ NodesEmpty(Fields)
       IN  /\ \E m \in ManifestChoices(refetch) :
                 LET c == FinalCheck(Fields, m, env_ok)
                 IN  SetFields(c) /\ Return(c)
           /\ calls' = IF refetch THEN Count(calls, "manifest") ELSE calls
           /\ last_call' = IF refetch THEN "manifest" ELSE last_call
    /\ last_resp' = NoResponse
    /\ pre' = Pre
    /\ UNCHANGED <<runVars, chanVars, experiment_name, env_ok, op, first_status>>

Next ==
    \/ CheckStatus
    \/ TerminateOp
    \/ SAW_Check
    \/ SAW_Refetch
    \/ SAW_Terminate
    \/ SAW_Start
    \/ SAW_PostStart
    \/ SAW_Poll
    \/ SAW_Final

Spec == Init /\ [][Next]_vars

\* the steps inside start_and_wait
SAW_Run ==
    \/ SAW_Refetch
    \/ SAW_Terminate
    \/ SAW_Start
    \/ SAW_PostStart
    \/ SAW_Poll
    \/ SAW_Final

-----------------------------------------------------------------------------
(* The classifier alone: one check_status whose status text is any text of  *)
(* at most MaxFrags fragments, on a fresh controller or on one that is      *)
(* Ready with its node map filled                                           *)

ReadyFields ==
    [status |-> EXPERIMENT_READY, still_provisioning |-> FALSE,
     nodes |-> ParseNodes(NoNodes, <<GoodDeploy>>, TRUE),
     manifests |-> SomeManifests(<<DocList(<<GoodDeploy>>)>>)]

InitClassify ==
    /\ ChanInit(FALSE)
    /\ NoDriver
    /\ experiment_name = DefaultName
    /\ \/ /\ status = EXPERIMENT_NOT_STARTED
          /\ still_provisioning = FALSE
          /\ nodes = NoNodes
          /\ manifests = NoManifests
          /\ env_ok \in BOOLEAN
       \/ /\ status = ReadyFields.status
          /\ still_provisioning = ReadyFields.still_provisioning
          /\ nodes = ReadyFields.nodes
          /\ manifests = ReadyFields.manifests
          /\ env_ok = TRUE
    /\ pc = "idle"
    /\ poll_count = 0
    /\ op = "none"
    /\ ret = "none"
    /\ calls = NoCalls
    /\ last_call = "none"
    /\ first_status = "none"
    /\ last_resp \in {StatusResponse(RESPONSE_SUCCESS, TRUE, t) : t \in BoundedTexts}
    /\ pre = Pre

\* check_status() answered with the text drawn by InitClassify
ClassifyStep ==
    /\ op = "none"
    /\ CheckStatusWith({last_resp})

ClassifySpec == InitClassify /\ [][ClassifyStep]_vars

-----------------------------------------------------------------------------
(* Properties *)

SAW == "start_and_wait"

\* start_and_wait has returned a value (it has not raised)
Returned == op = SAW /\ pc = "idle" /\ ret # "raised"

\* the states in which the wait loop goes on
OpenStates ==
    {EXPERIMENT_PROVISIONING, EXPERIMENT_PROVISIONED, EXPERIMENT_NOT_STARTED,
     EXPERIMENT_UNKNOWN}

\* C1: every step by which start_and_wait returns returns Ready or Failed,
\* the state it leaves being the value returned; and the step that leaves the
\* wait loop with the poll bound reached and the state still open returns
\* Failed.
C1_ReturnsReadyOrFailed ==
    [][(op' = SAW /\ pc' = "idle" /\ ret' # "raised") =>
          /\ ret' \in {EXPERIMENT_READY, EXPERIMENT_FAILED}
          /\ status' = ret'
          /\ (pc = "wait" /\ poll_count = poll_count_max /\ status \in OpenStates)
                => ret' = EXPERIMENT_FAILED]_vars

\* C1 witness: start_and_wait returned Failed after polling up to the bound
C1_Witness ==
    /\ Returned
    /\ ret = EXPERIMENT_FAILED
    /\ calls.sleep = poll_count_max
    /\ last_call = "status"
    /\ calls.status = poll_count_max + 1

\* C2: whenever start_and_wait returns Ready the node map is non-empty.
C2_ReadyHasNodes ==
    (Returned /\ ret = EXPERIMENT_READY) => ~NodesEmpty(Fields)

\* C3: the node map is empty unless the state is Ready.
C3_NodesOnlyWhenReady ==
    status # EXPERIMENT_READY => NodesEmpty(Fields)

\* how far a running start_and_wait has got
C4_Rank ==
    CASE pc = "start" -> 1
      [] pc = "poststart" -> 2
      [] pc = "wait" -> 3 + poll_count
      [] OTHER -> 0

\* C4: start_and_wait terminates: while it runs it can always take a step,
\* and each step either returns or raises its rank, which never exceeds
\* poll bound + 3. A turn of the wait loop is taken only with the state open
\* and fewer than PROVISION_TIMEOUT_S // POLL_INTERVAL_S polls done, and makes
\* exactly one sleep, of POLL_INTERVAL_S, and then one status call; nothing
\* else sleeps; one start_and_wait issues at most (poll bound + 2) status
\* calls.
C4_Step ==
    /\ poll_count' <= poll_count_max
    /\ (pc # "idle" /\ pc' # "idle") =>
          (C4_Rank' > C4_Rank /\ C4_Rank' <= poll_count_max + 3)
    /\ (pc = "wait" /\ pc' = "wait") =>
          /\ status \in OpenStates
          /\ poll_count < poll_count_max
          /\ poll_count' = poll_count + 1
          /\ calls'.sleep = calls.sleep + 1
          /\ calls'.slept_s = calls.slept_s + POLL_INTERVAL_S
          /\ calls'.status = calls.status + 1
    /\ (pc # "idle" /\ ~(pc = "wait" /\ pc' = "wait")) =>
          (calls'.sleep = calls.sleep /\ calls'.slept_s = calls.slept_s)
    /\ op' = SAW =>
          /\ calls'.sleep <= poll_count_max
          /\ calls'.slept_s <= PROVISION_TIMEOUT_S
          /\ calls'.status <= calls'.sleep + 2
          /\ calls'.status <= poll_count_max + 2

C4_Terminates ==
    /\ [](pc # "idle" => ENABLED SAW_Run)
    /\ [][C4_Step]_vars

\* C4 witness: a start_and_wait that started the experiment, polled up to the
\* bound and so issued poll bound + 2 status calls
C4_Witness ==
    /\ op = SAW
    /\ pc = "idle"
    /\ calls.start = 1
    /\ calls.sleep = poll_count_max
    /\ calls.slept_s = PROVISION_TIMEOUT_S
    /\ calls.status = poll_count_max + 2

\* C5: when the first status check of start_and_wait yields Provisioning or
\* Provisioned, that start_and_wait issues no start call and no terminate
\* call and is in the wait loop until it returns.
C5_NoStartWhileProvisioning ==
    (op = SAW /\ first_status \in {EXPERIMENT_PROVISIONING, EXPERIMENT_PROVISIONED})
        => /\ calls.start = 0
           /\ calls.terminate = 0
           /\ pc \in {"wait", "idle"}

\* C5 witness: such a start_and_wait polled and returned Ready
C5_Witness ==
    /\ Returned
    /\ first_status = EXPERIMENT_PROVISIONED
    /\ calls.sleep = 2
    /\ ret = EXPERIMENT_READY

\* C6: when the first status check of start_and_wait yields Failed, exactly
\* one terminate call is issued, before the start call, and the start call is
\* issued whether the terminate call succeeded or failed.
C6_TerminateThenStart ==
    (op = SAW /\ first_status = EXPERIMENT_FAILED) =>
        /\ calls.terminate <= 1
        /\ calls.start >= 1 => calls.terminate = 1
        /\ pc \notin {"terminate", "start"} =>
              (calls.terminate = 1 /\ calls.start = 1)

\* C7: when the first status check of start_and_wait yields Failed,
\* start_and_wait returns Failed without a sleep and without a wait-loop poll.
C7_FailedWithoutWaiting ==
    (Returned /\ first_status = EXPERIMENT_FAILED) =>
        (ret = EXPERIMENT_FAILED /\ calls.sleep = 0)

\* C7 as amended: after a first status check that yields Failed, a refused
\* start call and a Failed status right after the start call each make
\* start_and_wait return Failed at once, with no sleep; the wait loop is
\* entered exactly when the status after the start call is not Failed, and a
\* sleep happens only in the wait loop, after one terminate and one start
\* call, with the state open.
C7_Step ==
    (op' = SAW /\ first_status' = EXPERIMENT_FAILED) =>
        /\ (pc = "start" /\ calls'.start_failed = 1) =>
              (pc' = "idle" /\ ret' = EXPERIMENT_FAILED /\ calls'.sleep = 0)
        /\ (pc = "poststart" /\ status' = EXPERIMENT_FAILED) =>
              (pc' = "idle" /\ ret' = EXPERIMENT_FAILED /\ calls'.sleep = 0)
        /\ (pc = "poststart" /\ status' # EXPERIMENT_FAILED) => pc' = "wait"
        /\ (pc # "idle" /\ calls'.sleep # calls.sleep) =>
              /\ pc = "wait"
              /\ calls.terminate = 1
              /\ calls.start = 1
              /\ calls.start_failed = 0
              /\ status \in OpenStates

C7_FailedRestarts == [][C7_Step]_vars

\* C7 witness: Failed at the first check and again right after the start call
C7_Witness ==
    /\ Returned
    /\ first_status = EXPERIMENT_FAILED
    /\ calls.terminate = 1
    /\ calls.start = 1
    /\ calls.start_failed = 0
    /\ calls.status = 2
    /\ calls.sleep = 0
    /\ ret = EXPERIMENT_FAILED

\* C8: after a refused start call the state is Failed and start_and_wait has
\* returned Failed, the start call being the last thing it did: no status
\* call and no sleep follows it.
C8_StartRefused ==
    (op = SAW /\ calls.start_failed > 0) =>
        /\ pc = "idle"
        /\ status = EXPERIMENT_FAILED
        /\ ret = EXPERIMENT_FAILED
        /\ last_call = "start"
        /\ calls.start = 1
        /\ calls.status = 1
        /\ calls.sleep = 0

\* C8 witness: the start call of a not yet started experiment is refused
C8_Witness ==
    /\ Returned
    /\ first_status = EXPERIMENT_NOT_STARTED
    /\ calls.start_failed = 1
    /\ ret = EXPERIMENT_FAILED

\* the state the vocabulary of the claim gives the stripped text s
C9_Expected(s) ==
    CASE StartsWith(s, PREFIX_READY) -> EXPERIMENT_READY
      [] StartsWith(s, PREFIX_PROVISIONING) -> EXPERIMENT_PROVISIONING
      [] StartsWith(s, PREFIX_PROVISIONED) -> EXPERIMENT_PROVISIONED
      [] StartsWith(s, PREFIX_FAILED) -> EXPERIMENT_FAILED
      [] OTHER -> IF Contains(s, MARKER_UUID) THEN EXPERIMENT_PROVISIONING
                  ELSE EXPERIMENT_UNKNOWN

\* check_status has handled a status answer with a success code
C9_Classified == op = "check_status" /\ last_resp.code = RESPONSE_SUCCESS

C10_NoSuch(r) ==
    \/ r.code = RESPONSE_BADARGS
    \/ r.code = RESPONSE_ERROR /\ r.hasOutput
                               /\ Contains(r.output, NO_SUCH_EXPERIMENT)

\* C10: right after a status call answered with "no such experiment" the
\* state is NotStarted, the node map is empty and no manifest is cached.
C10_NoSuchClears ==
    C10_NoSuch(last_resp) =>
        /\ status = EXPERIMENT_NOT_STARTED
        /\ NodesEmpty(Fields)
        /\ manifests = NoManifests

\* C10 witness: the answer arrives with nodes in the map and manifests cached
C10_Witness ==
    /\ last_resp.code = RESPONSE_ERROR
    /\ C10_NoSuch(last_resp)
    /\ ~NodesEmpty(pre)
    /\ pre.manifests.some
    /\ status = EXPERIMENT_NOT_STARTED

\* the status answer failed in another way: its code is no success and it does
\* not say that the experiment does not exist
C11_OtherFailure(r) ==
    r.code \in {RESPONSE_ERROR, RESPONSE_OTHER} /\ ~C10_NoSuch(r)

\* C11: right after a status call that failed in another way the state is
\* Unknown, the node map and the cached manifests are what they were before
\* the call, and the status call is the last call issued: no manifest call.
C11_UnknownKeepsNodes ==
    C11_OtherFailure(last_resp) =>
        /\ status = EXPERIMENT_UNKNOWN
        /\ nodes = pre.nodes
        /\ manifests = pre.manifests
        /\ last_call = "status"
        /\ op = "check_status" => calls.manifest = 0

\* C11 witness: the answer arrives with nodes in the map and manifests cached
C11_Witness ==
    /\ C11_OtherFailure(last_resp)
    /\ ~NodesEmpty(pre)
    /\ pre.manifests.some
    /\ nodes = pre.nodes
    /\ status = EXPERIMENT_UNKNOWN

\* C12: once a status call of start_and_wait has yielded Unknown, the next
\* step of that start_and_wait issues no status call, and when it leaves the
\* wait loop it does not return Failed.
C12_UnknownStopsPolling ==
    [][(op = SAW /\ pc # "idle" /\ status = EXPERIMENT_UNKNOWN
                 /\ last_call = "status") =>
          /\ calls'.status = calls.status
          /\ (pc = "wait" /\ pc' = "idle") => ret' # EXPERIMENT_FAILED]_vars

\* check_status has handled a status answer whose text says ready
C13_ReadyAnswer ==
    /\ op = "check_status"
    /\ last_resp.code = RESPONSE_SUCCESS
    /\ StartsWith(Strip(last_resp.output), PREFIX_READY)

\* C13: when check_status has handled a ready answer with the node map
\* empty, it has issued exactly one manifest call, as its last call, and the
\* node map is the parse of the manifests that call cached; with the node map
\* filled it has issued no manifest call and the node map and the cached
\* manifests are as before.
C13_OneManifestCall ==
    C13_ReadyAnswer =>
        /\ calls.status = 1
        /\ NodesEmpty(pre) =>
              /\ calls.manifest = 1
              /\ last_call = "manifest"
              /\ nodes = ParseManifests(manifests, NoNodes, env_ok).nodes
        /\ ~NodesEmpty(pre) =>
              /\ calls.manifest = 0
              /\ last_call = "status"
              /\ nodes = pre.nodes
              /\ manifests = pre.manifests
              /\ status = EXPERIMENT_READY

\* C13 witness: a ready answer met an empty node map, and the one manifest
\* call filled it
C13_Witness ==
    /\ C13_ReadyAnswer
    /\ NodesEmpty(pre)
    /\ calls.manifest = 1
    /\ ~NodesEmpty(Fields)
    /\ status = EXPERIMENT_READY

\* C14: terminate issues exactly one teardown call and returns the state
\* without raising: Null after a teardown call that succeeded, the state it
\* found after one that failed, whatever the payload of the failure holds.
C14_TerminateNeverRaises ==
    op = "terminate" =>
        /\ calls.terminate = 1
        /\ ret # "raised"
        /\ ret = status
        /\ calls.terminate_failed = 0 => status = EXPERIMENT_NULL

\* C15: once a terminate call has left the state Null, a further terminate
\* call, answered with success or with failure, leaves the state Null and the
\* node map, the cached manifests and the provisioning flag as they were.
C15_TeardownIdempotent ==
    [][(op = "terminate" /\ status = EXPERIMENT_NULL /\ op' = "terminate") =>
          /\ status' = EXPERIMENT_NULL
          /\ nodes' = nodes
          /\ manifests' = manifests
          /\ still_provisioning' = still_provisioning]_vars

\* C15 witness: a teardown call that failed on an experiment already torn
\* down, its node map filled
C15_Witness ==
    /\ op = "terminate"
    /\ status = EXPERIMENT_NULL
    /\ calls.terminate_failed = 1
    /\ ~NodesEmpty(Fields)

-----------------------------------------------------------------------------
(* The constructor: PowderExperiment(experiment_name, ...) called with any  *)
(* name of at most MaxNameLen characters, and then used                     *)

\* the name of n characters
NameOfLen(n) == [i \in 1..n |-> "a"]

Names == {NameOfLen(n) : n \in 0..MaxNameLen}

\* before the call of the constructor no field is set
InitConstruct ==
    /\ ChanInit(FALSE)
    /\ NoDriver
    /\ experiment_name \in Names
    /\ status = "unset"
    /\ still_provisioning = FALSE
    /\ nodes = NoNodes
    /\ manifests = NoManifests
    /\ env_ok \in BOOLEAN
    /\ pc = "new"
    /\ poll_count = 0
    /\ op = "none"
    /\ ret = "none"
    /\ calls = NoCalls
    /\ last_call = "none"
    /\ first_status = "none"
    /\ last_resp = NoResponse
    /\ pre = Pre

\* PowderExperiment.__init__: sys.exit(1) on a name that is too long, else the
\* fields are set
Construct ==
    /\ pc = "new"
    /\ IF NameTooLong(experiment_name)
       THEN /\ pc' = "exited"
            /\ ret' = "exit 1"
            /\ UNCHANGED <<status, still_provisioning, nodes, manifests>>
       ELSE /\ pc' = "idle"
            /\ ret' = "none"
            /\ status' = EXPERIMENT_NOT_STARTED
            /\ still_provisioning' = FALSE
            /\ nodes' = NoNodes
            /\ manifests' = NoManifests
    /\ op' = "__init__"
    /\ UNCHANGED <<runVars, chanVars, experiment_name, env_ok, poll_count, calls, last_call,
                   first_status, last_resp, pre>>

NextConstruct ==
    \/ Construct
    \/ CheckStatus
    \/ TerminateOp

ConstructSpec == InitConstruct /\ [][NextConstruct]_vars

C17_WrittenOnce ==
    [][nodes' # nodes =>
          (NodesEmpty(Fields) /\ status' = EXPERIMENT_READY)]_vars

\* C17 as amended: a step changes the node map in two ways only. It fills the
\* empty map with the parse of the manifests fetched by its last call, the
\* state after it being Ready, or Failed when the parse raised; or it empties
\* the map on a status answer saying that the experiment does not exist, the
\* state after it being NotStarted. A filled map is never replaced or added
\* to, and terminate never touches the map.
C17_Step ==
    nodes' # nodes =>
        \/ /\ NodesEmpty(Fields)
           /\ last_call' = "manifest"
           /\ calls'.manifest > 0
           /\ nodes' = ParseManifests(manifests', NoNodes, env_ok).nodes
           /\ status' \in {EXPERIMENT_READY, EXPERIMENT_FAILED}
           /\ status' = EXPERIMENT_FAILED =>
                 ParseManifests(manifests', NoNodes, env_ok).raised
        \/ /\ ~NodesEmpty(Fields)
           /\ C10_NoSuch(last_resp')
           /\ nodes' = NoNodes
           /\ status' = EXPERIMENT_NOT_STARTED

C17_FilledWhenEmptyOrCleared == [][C17_Step]_vars

\* C17 witness: the step that filled the node map left the state Failed
C17_Witness ==
    /\ NodesEmpty(pre)
    /\ ~NodesEmpty(Fields)
    /\ last_call = "manifest"
    /\ status = EXPERIMENT_FAILED

-----------------------------------------------------------------------------
(* What a manifest says, stated without the parser *)

\* the descriptor carries an identifier, a host descriptor, a name and an
\* address
WellFormed(d) ==
    /\ d.isdict
    /\ d.client_id # ""
    /\ d.host = "dict"
    /\ d.name # ""
    /\ d.ipv4 # ""

\* the descriptors of the documents docs, in order
RECURSIVE DescsOf(_)
DescsOf(docs) ==
    IF docs = <<>> THEN <<>>
    ELSE LET doc == Head(docs)
             here == CASE doc.kind = "single" -> <<doc.d>>
                       [] doc.kind = "list" -> doc.ds
                       [] OTHER -> <<>>
         IN  here \o DescsOf(Tail(docs))

\* the identifiers of the well-formed descriptors of ds
ValidIds(ds) == {ds[i].client_id : i \in {j \in 1..Len(ds) : WellFormed(ds[j])}}

\* the nodes the descriptors ds describe: for each identifier the address and
\* the name of the last well-formed descriptor that carries it
ValidNodes(ds) ==
    LET good == {i \in 1..Len(ds) : WellFormed(ds[i])}
        last(k) == CHOOSE i \in good :
                      /\ ds[i].client_id = k
                      /\ \A j \in good : ds[j].client_id = k => j <= i
    IN  [k \in ValidIds(ds) |->
            [ip_address |-> ds[last(k)].ipv4, hostname |-> ds[last(k)].name]]

\* a document whose 'rspec' element is empty
HasEmptyRspec(docs) == \E i \in 1..Len(docs) : docs[i].kind = "nullrspec"

InProgress == {EXPERIMENT_PROVISIONING, EXPERIMENT_PROVISIONED}

\* the poll of a start_and_wait that found the experiment in progress was
\* answered with a ready text, and the manifest call of that poll with
\* manifests that hold a well-formed node descriptor, the SSH environment
\* being set
C18_ReadyPoll ==
    /\ env_ok
    /\ op = SAW
    /\ first_status \in InProgress
    /\ pc = "wait"
    /\ calls.sleep > 0
    /\ last_resp.code = RESPONSE_SUCCESS
    /\ NewStatus(last_resp.output) = EXPERIMENT_READY
    /\ NodesEmpty(pre)
    /\ last_call = "manifest"
    /\ manifests.some
    /\ ValidIds(DescsOf(manifests.docs)) # {}

C18_Step ==
    (op' = SAW /\ first_status' \in InProgress) =>
        /\ calls'.start = 0
        /\ calls'.status = calls'.sleep + 1
        /\ pc' \in {"wait", "idle"}
        /\ (pc = "wait" /\ pc' = "wait"
                        /\ last_resp'.code = RESPONSE_SUCCESS) =>
              LET said == NewStatus(last_resp'.output)
              IN  /\ said \in InProgress =>
                        (status' = said /\ LoopCond(status', 0))
                  /\ (said = EXPERIMENT_READY /\ ~NodesEmpty(Fields)) =>
                        (status' = EXPERIMENT_READY /\ nodes' = nodes)
                  /\ ( /\ said = EXPERIMENT_READY
                       /\ NodesEmpty(Fields)
                       /\ env_ok
                       /\ manifests'.some
                       /\ ~HasEmptyRspec(manifests'.docs)
                       /\ ValidIds(DescsOf(manifests'.docs)) # {} ) =>
                        /\ status' = EXPERIMENT_READY
                        /\ calls'.manifest = calls.manifest + 1
                        /\ nodes' = ValidNodes(DescsOf(manifests'.docs))
        /\ (pc = "wait" /\ status = EXPERIMENT_READY /\ ~NodesEmpty(Fields)) =>
              /\ pc' = "idle"
              /\ ret' = EXPERIMENT_READY
              /\ status' = EXPERIMENT_READY
              /\ calls' = calls
              /\ nodes' = nodes

-----------------------------------------------------------------------------
(* The parser alone: one check_status on a fresh controller, answered ready, *)
(* whose manifest call is answered with one document holding any list of at  *)
(* most MaxDescs descriptors, or a single descriptor                         *)

NoName == Desc(TRUE, "node-6", "dict", "", "10.0.0.6")
ScalarHost == Desc(TRUE, "node-7", "scalar", "", "")

\* a second descriptor with the identifier of GoodDeploy
DupDeploy == Desc(TRUE, "deploy-node", "dict", "pc9.emulab", "10.0.0.9")

Descs ==
    {GoodDeploy, GoodOther, DupDeploy, NoClientId, NoHost, ScalarHost, NoName,
     NoIpv4, NotADict}

\* every list of exactly n descriptors
RECURSIVE DescListsOf(_)
DescListsOf(n) ==
    IF n = 0 THEN {<<>>}
    ELSE {Append(ds, d) : ds \in DescListsOf(n - 1), d \in Descs}

DescLists == UNION {DescListsOf(n) : n \in 0..MaxDescs}

ParseInputs ==
    {ManifestResponse(RESPONSE_SUCCESS, TRUE, <<DocList(ds)>>) : ds \in DescLists}
    \cup {ManifestResponse(RESPONSE_SUCCESS, TRUE, <<DocSingle(d)>>) : d \in Descs}
    \cup {ManifestResponse(RESPONSE_SUCCESS, TRUE,
                           <<DocNoRspec, DocSingle(d), DocNoNode>>) : d \in Descs}
    \cup {ManifestResponse(RESPONSE_SUCCESS, TRUE, <<DocNoRspec>>),
          ManifestResponse(RESPONSE_SUCCESS, TRUE, <<DocNoNode>>)}

\* check_status() answered ready, its manifest call with one of ParseInputs
ParseStep ==
    /\ op = "none"
    /\ CheckStatusAnswered(
           {<<StatusResponse(RESPONSE_SUCCESS, TRUE, TEXT_READY), m>> :
               m \in ParseInputs})

\* self._parse_manifests() called once more on the manifests that
\* check_status cached
ParseAgain ==
    /\ pc = "idle"
    /\ op = "check_status"
    /\ LET p == ParseManifests(manifests, nodes, env_ok)
       IN  /\ nodes' = p.nodes
           /\ ret' = IF p.raised THEN "raised" ELSE "self"
    /\ op' = "_parse_manifests"
    /\ calls' = NoCalls
    /\ last_call' = "none"
    /\ first_status' = "none"
    /\ last_resp' = NoResponse
    /\ pre' = Pre
    /\ UNCHANGED <<runVars, chanVars, experiment_name, env_ok, pc, poll_count, status,
                   still_provisioning, manifests>>

NextParse ==
    \/ ParseStep
    \/ ParseAgain

ParseSpec == Init /\ [][NextParse]_vars

\* the manifests have been fetched and parsed
C19_Parsed == op = "check_status" /\ calls.manifest = 1 /\ manifests.some

\* how many descriptors of ds are malformed
C19_Malformed(ds) == Cardinality({i \in 1..Len(ds) : ~WellFormed(ds[i])})

\* C19: with the SSH environment set, the parse of any list of descriptors
\* does not raise and yields as many nodes as the list has descriptors that
\* are not malformed.
C19_CountsValid ==
    (C19_Parsed /\ env_ok) =>
        LET ds == DescsOf(manifests.docs)
        IN  /\ status = EXPERIMENT_READY
            /\ Cardinality(DOMAIN nodes) = Len(ds) - C19_Malformed(ds)

\* C19 as amended: the parse of any list of descriptors does not raise; with
\* the SSH environment set its result is the nodes of the well-formed
\* descriptors, those behind a malformed one included, one node for each
\* identifier, so that the number of nodes is the number of descriptors minus
\* the malformed ones exactly when no two well-formed descriptors share an
\* identifier, and less otherwise; without that environment the result is
\* empty.
C19_SkipsMalformed ==
    C19_Parsed =>
        LET ds == DescsOf(manifests.docs)
            valid == Len(ds) - C19_Malformed(ds)
        IN  /\ status = EXPERIMENT_READY
            /\ ret = EXPERIMENT_READY
            /\ env_ok => /\ nodes = ValidNodes(ds)
                         /\ Cardinality(DOMAIN nodes) = Cardinality(ValidIds(ds))
                         /\ Cardinality(DOMAIN nodes) <= valid
                         /\ Cardinality(DOMAIN nodes) = valid <=>
                               \A i, j \in 1..Len(ds) :
                                   ( /\ WellFormed(ds[i])
                                     /\ WellFormed(ds[j])
                                     /\ ds[i].client_id = ds[j].client_id )
                                       => i = j
            /\ ~env_ok => NodesEmpty(Fields)

\* C19 witness: a well-formed descriptor between two malformed ones is parsed
C19_Witness ==
    /\ C19_Parsed
    /\ env_ok
    /\ manifests.docs = <<DocList(<<NoHost, GoodDeploy, NoClientId>>)>>
    /\ nodes = ValidNodes(<<GoodDeploy>>)
    /\ Cardinality(DOMAIN nodes) = 1

\* C20: a document whose node container is a single descriptor is parsed to
\* the node set that the same descriptor in a one-element list is parsed to;
\* that set is exactly the one node of the descriptor when the descriptor is
\* well-formed and the SSH environment set.
C20_SingleAsList ==
    (C19_Parsed /\ manifests.docs[1].kind = "single") =>
        LET d == manifests.docs[1].d
            listed == ParseManifests(SomeManifests(<<DocList(<<d>>)>>),
                                     NoNodes, env_ok)
        IN  /\ status = EXPERIMENT_READY
            /\ ~listed.raised
            /\ nodes = listed.nodes
            /\ (WellFormed(d) /\ env_ok) =>
                  /\ Cardinality(DOMAIN nodes) = 1
                  /\ DOMAIN nodes = {d.client_id}
                  /\ nodes[d.client_id] = [ip_address |-> d.ipv4,
                                           hostname |-> d.name]

\* C20 witness: a single well-formed descriptor became one node
C20_Witness ==
    /\ C19_Parsed
    /\ env_ok
    /\ manifests.docs = <<DocSingle(GoodOther)>>
    /\ DOMAIN nodes = {"node-2"}

-----------------------------------------------------------------------------
(* The session channel: SSHConnection of powder/ssh.py.  The channel owns   *)
(* at most the handle self.ssh refers to; what the spawned ssh process      *)
(* shows in each pattern race is an input chosen freely.  sendline and      *)
(* close(force=True) of a handle are taken to succeed, except in close(),   *)
(* whose code provides for their failure.                                   *)

\* line 67
max_retries == 4

\* line 168: wait_time = retry_count * 2
BACKOFF_UNIT_S == 2

\* the outcomes of the first pattern race, lines 74-82, in the order of their
\* indexes 0..6
FirstRace ==
    {"prompt", "password", "passphrase", "denied", "hostkey", "eof", "timeout"}

\* the outcomes of the race after the host key acceptance, lines 125-132
HostKeyRace == {"prompt", "password", "passphrase", "denied", "eof", "timeout"}

\* the outcomes of the race after the passphrase was sent, lines 101 and 139:
\* its pattern list holds the prompt and the denial only, so that expect()
\* raises pexpect.EOF or pexpect.TIMEOUT on the two other outcomes
SecondRace == {"prompt", "denied", "eof", "timeout"}

\* what one connect attempt can meet: pexpect.spawn raises, or the outcomes of
\* its races in order; the passphrase is followed by a race only when one is
\* configured
AfterPassphrase(pw) ==
    IF pw THEN {<<"passphrase", j>> : j \in SecondRace}
    ELSE {<<"passphrase">>}

Paths(pw) ==
    {<<"spawn_error">>}
    \cup {<<i>> : i \in FirstRace \ {"passphrase", "hostkey"}}
    \cup AfterPassphrase(pw)
    \cup {<<"hostkey", k>> : k \in HostKeyRace \ {"passphrase"}}
    \cup {<<"hostkey">> \o p : p \in AfterPassphrase(pw)}

\* how an attempt ends: "self" returns, an error name raises, "retry" falls to
\* line 165; closed tells whether the spawned handle was closed; sends and
\* expects are what the attempt sent and how many races it ran
Ended(result, closed, sends, expects) ==
    [result |-> result, closed |-> closed, sends |-> sends,
     expects |-> expects]

\* lines 159-162: a pexpect exception closes the handle, the attempt is retried
Caught(sends, expects) == Ended("retry", TRUE, sends, expects)

\* lines 114-119: permission denied in the first race
OnDenied_Retried == Ended("retry", TRUE, <<>>, 1)

OnDenied == Ended("ValueError", TRUE, <<>>, 1)

\* lines 88-94: a password challenge in the first race
OnPassword == Ended("ValueError", TRUE, <<>>, 1)

\* lines 96-112: a passphrase challenge in the first race; path[2] is j
OnPassphrase(path, pw) ==
    IF pw
    THEN CASE path[2] = "prompt" ->
                Ended("self", FALSE, <<"passphrase">>, 2)
           [] path[2] = "denied" ->
                Ended("ValueError", TRUE, <<"passphrase">>, 2)
           [] OTHER -> Caught(<<"passphrase">>, 2)
    ELSE Ended("ValueError", TRUE, <<>>, 1)

\* lines 121-147 with the acceptance sent again before the second race is read
OnHostKey_AcceptsTwice(path, pw) ==
    LET k == path[2]
    IN  CASE k = "prompt" -> Ended("self", FALSE, <<"yes", "yes">>, 2)
          [] k = "password" -> Ended("ValueError", FALSE, <<"yes", "yes">>, 2)
          [] k = "passphrase" ->
                IF pw
                THEN CASE path[3] = "prompt" ->
                            Ended("self", FALSE,
                                  <<"yes", "yes", "passphrase">>, 3)
                       [] path[3] = "denied" ->
                            Ended("ValueError", FALSE,
                                  <<"yes", "yes", "passphrase">>, 3)
                       [] OTHER -> Caught(<<"yes", "yes", "passphrase">>, 3)
                ELSE Ended("ValueError", FALSE, <<"yes", "yes">>, 2)
          [] k = "denied" -> Ended("ValueError", FALSE, <<"yes", "yes">>, 2)
          [] OTHER -> Ended("retry", TRUE, <<"yes", "yes">>, 2)

\* lines 121-147: the host key prompt; path[2] is k, path[3] is l.  The
\* branches that raise (lines 135, 141, 142, 143) do not close the handle
OnHostKey(path, pw) ==
    LET k == path[2]
    IN  CASE k = "prompt" -> Ended("self", FALSE, <<"yes">>, 2)
          [] k = "password" -> Ended("ValueError", FALSE, <<"yes">>, 2)
          [] k = "passphrase" ->
                IF pw
                THEN CASE path[3] = "prompt" ->
                            Ended("self", FALSE, <<"yes", "passphrase">>, 3)
                       [] path[3] = "denied" ->
                            Ended("ValueError", FALSE,
                                  <<"yes", "passphrase">>, 3)
                       [] OTHER -> Caught(<<"yes", "passphrase">>, 3)
                ELSE Ended("ValueError", FALSE, <<"yes">>, 2)
          [] k = "denied" -> Ended("ValueError", FALSE, <<"yes">>, 2)
          [] OTHER -> Ended("retry", TRUE, <<"yes">>, 2)

\* lines 70-162: one pass through the try statement, after a spawn that did
\* not raise
Attempt(path, pw) ==
    CASE path[1] = "prompt" -> Ended("self", FALSE, <<>>, 1)
      [] path[1] = "password" -> OnPassword
      [] path[1] = "passphrase" -> OnPassphrase(path, pw)
      [] path[1] = "denied" -> OnDenied
      [] path[1] = "hostkey" -> OnHostKey(path, pw)
      [] OTHER -> Ended("retry", TRUE, <<>>, 1)

\* line 68
LoopAgain(rc) == rc < max_retries

\* line 167 with the sleep taken after the last attempt as well
SleepsBefore_Always(rc) == TRUE

\* line 167
SleepsBefore(rc) == rc < max_retries

\* line 168 without the growth of the delay
wait_time_Fixed(rc) == BACKOFF_UNIT_S

\* line 168
wait_time(rc) == rc * BACKOFF_UNIT_S

\* the variables of the experiment controller, which the channel leaves alone
expVars ==
    <<experiment_name, status, still_provisioning, nodes, manifests, env_ok,
      poll_count, calls, last_call, first_status, last_resp, pre>>

\* lines 68-174: one turn of the loop of open().  rc is retry_count at the top
\* of the loop and h what the call has done so far.  When spawn raises,
\* self.ssh still refers to the handle of before, which lines 161-162 close.
\* When spawn succeeds line 70 rebinds self.ssh, and a handle that was open
\* is closed by no statement of the class: it stays open unless the
\* interpreter finalises the dropped object, which is not in the hands of
\* this code
OpenAttempt(rc, h, path) ==
    LET spawned == path # <<"spawn_error">>
        a == IF spawned THEN Attempt(path, password) ELSE Caught(<<>>, 0)
        closing == a.closed /\ (spawned \/ ssh = "open")
        did == [h EXCEPT !.spawns = @ + (IF spawned THEN 1 ELSE 0),
                         !.attempts = Append(@, path),
                         !.sends = @ \o a.sends,
                         !.expects = @ + a.expects,
                         !.closes = @ + (IF closing THEN 1 ELSE 0)]
    IN  /\ ssh' = IF spawned
                  THEN (IF a.closed THEN "closed" ELSE "open")
                  ELSE (IF ssh = "none" THEN "none" ELSE "closed")
        /\ leaked' \in IF spawned /\ ssh = "open"
                       THEN {leaked, leaked + 1}
                       ELSE {leaked}
        /\ IF a.result = "retry"
           THEN /\ retry_count' = rc + 1
                /\ io' = IF SleepsBefore(rc + 1)
                         THEN [did EXCEPT
                                 !.sleeps = Append(@, wait_time(rc + 1))]
                         ELSE did
                /\ IF LoopAgain(rc + 1)
                   THEN pc' = "open" /\ ret' = "none"
                   ELSE pc' = "idle" /\ ret' = "ConnectionError"
           ELSE /\ retry_count' = rc
                /\ io' = did
                /\ pc' = "idle"
                /\ ret' = a.result
        /\ op' = "open"
        /\ UNCHANGED <<password, expVars, runVars>>

\* open() is called: lines 66-67, then the first turn of the loop
Open ==
    /\ pc = "idle"
    /\ ssh = "open" => leaked < MaxLeaked
    /\ \E path \in Paths(password) : OpenAttempt(0, NoIo, path)

\* a further turn of the loop of open()
OpenRetry ==
    /\ pc = "open"
    /\ \E path \in Paths(password) : OpenAttempt(retry_count, io, path)

\* line 179 with the test of the closed flag left out
NotOpen_NoneOnly(h) == h = "none"

\* line 179: not self.ssh or self.ssh.closed
NotOpen(h) == h # "open"

\* lines 183-184 without the default
Marker_Literal(expectedline) == expectedline

\* lines 183-184: the prompt is the marker when none is given
Marker(expectedline) ==
    IF expectedline = "none" THEN "prompt" ELSE expectedline

\* lines 196-204: the three indexes of the race of command()
CommandResult(i) ==
    CASE i = "match" -> "before"
      [] i = "eof" -> "ConnectionAbortedError"
      [] i = "timeout" -> "TimeoutError"

\* SSHConnection.command, lines 177-208
Command ==
    /\ pc = "idle"
    /\ IF NotOpen(ssh)
       THEN /\ ret' = "ConnectionError"
            /\ io' = NoIo
       ELSE \E expectedline \in {"none", "marker"},
               i \in {"match", "eof", "timeout"} :
                /\ ret' = CommandResult(i)
                /\ io' = [NoIo EXCEPT !.sends = <<"commandline">>,
                                      !.expects = 1,
                                      !.given = expectedline,
                                      !.waited_for = Marker(expectedline),
                                      !.race = i]
    /\ op' = "command"
    /\ UNCHANGED <<ssh, password, retry_count, leaked, pc, expVars, runVars>>

\* lines 292-295 with the handle left as it is
AfterOsError_Open == "open"

\* lines 292-295: self.ssh.closed = True
AfterOsError == "closed"

\* SSHConnection.close, lines 277-299: the wait ends with the end of the
\* stream or with the grace period, and the handle, which expect() does not
\* close, is closed by force; or the send fails with an OSError
Close ==
    /\ pc = "idle"
    /\ IF ~NotOpen(ssh)
       THEN \E o \in {"eof", "timeout", "oserror"} :
                IF o = "oserror"
                THEN /\ ssh' = AfterOsError
                     /\ io' = [NoIo EXCEPT !.sends = <<"exit">>,
                                           !.race = o]
                ELSE /\ ssh' = "closed"
                     /\ io' = [NoIo EXCEPT !.sends = <<"exit">>,
                                           !.expects = 1,
                                           !.waited_for = "eof",
                                           !.race = o,
                                           !.closes = 1]
       ELSE /\ ssh' = ssh
            /\ io' = NoIo
    /\ op' = "close"
    /\ ret' = "True"
    /\ UNCHANGED <<password, retry_count, leaked, pc, expVars, runVars>>

\* what pexpect.run of a transfer can end with, lines 248-275: the process
\* exits with a status, 0 or not, and any output; it is ended by a signal
\* (exit status None); pexpect.run times out; or it raises something else
TransferOutputs == {"plain", "No such file or directory", "Permission denied"}

Transfers ==
    {Transfer("exited", e, o) : e \in {0, 1, 255}, o \in TransferOutputs}
    \cup {Transfer(k, 0, "none") : k \in {"signalled", "timeout", "error"}}

\* lines 257-275 with a complaint in the output counted as a failure
RunScp_OutputDecides(t) ==
    t.kind = "exited" /\ t.exit_status = 0 /\ t.output = "plain"

\* SSHConnection._run_scp, lines 234-275: True on exit status 0, False on any
\* other status and on every exception; the output is only logged
RunScp(t) == t.kind = "exited" /\ t.exit_status = 0

\* the result of a transfer as the history shows it
Reported(b) == IF b THEN "True" ELSE "False"

\* SSHConnection.copy_to, lines 210-222: a local file that does not exist
\* raises before any transfer is run
CopyTo ==
    /\ pc = "idle"
    /\ \E local_exists \in BOOLEAN, t \in Transfers :
          IF local_exists
          THEN /\ ret' = Reported(RunScp(t))
               /\ io' = [NoIo EXCEPT !.runs = 1, !.transfer = t]
          ELSE /\ ret' = "FileNotFoundError"
               /\ io' = NoIo
    /\ op' = "copy_to"
    /\ UNCHANGED <<ssh, password, retry_count, leaked, pc, expVars, runVars>>

\* SSHConnection.copy_from, lines 224-232
CopyFrom ==
    /\ pc = "idle"
    /\ \E t \in Transfers :
          /\ ret' = Reported(RunScp(t))
          /\ io' = [NoIo EXCEPT !.runs = 1, !.transfer = t]
    /\ op' = "copy_from"
    /\ UNCHANGED <<ssh, password, retry_count, leaked, pc, expVars, runVars>>

\* a channel as SSHConnection.__init__ leaves it, which needs USER and CERT
\* set and the key file present
InitSsh ==
    /\ \E pw \in BOOLEAN : ChanInit(pw)
    /\ NoDriver
    /\ experiment_name = DefaultName
    /\ status = EXPERIMENT_NOT_STARTED
    /\ still_provisioning = FALSE
    /\ nodes = NoNodes
    /\ manifests = NoManifests
    /\ env_ok = TRUE
    /\ pc = "idle"
    /\ poll_count = 0
    /\ op = "none"
    /\ ret = "none"
    /\ calls = NoCalls
    /\ last_call = "none"
    /\ first_status = "none"
    /\ last_resp = NoResponse
    /\ pre = Pre

NextSsh == Open \/ OpenRetry \/ Command \/ Close \/ CopyTo \/ CopyFrom

SshSpec == InitSsh /\ [][NextSsh]_vars

-----------------------------------------------------------------------------
(* Properties of the session channel *)

\* C22: command() on a channel that was never opened or is closed raises the
\* connection error and sends nothing and waits for nothing, whatever calls
\* of open, command and close came before
C22_ClosedCommandFailsFast ==
    (op = "command" /\ ssh # "open") =>
        /\ ret = "ConnectionError"
        /\ io.sends = <<>>
        /\ io.expects = 0
        /\ io.spawns = 0
        /\ io.closes = 0

\* command() was called on a channel that open() calls and a close() call
\* have left closed
C22_Witness ==
    /\ op = "command"
    /\ ssh = "closed"
    /\ leaked = 1
    /\ ret = "ConnectionError"

\* the races met by the latest connect attempt of open()
LastAttempt == io.attempts[Len(io.attempts)]

\* the outcomes of a first race that open() answers by closing and raising
HardFirstRace ==
    \/ LastAttempt = <<"denied">>
    \/ LastAttempt = <<"password">>
    \/ LastAttempt = <<"passphrase">> /\ ~password

\* C23: when the first race of a connect attempt shows a denial, a password
\* challenge, or a passphrase challenge while no passphrase is configured,
\* open() closes the handle and raises: the call is over, and it has slept
\* only between the attempts before this one, whichever attempt it is
C23_HardErrorNoRetry ==
    (op = "open" /\ io.attempts # <<>> /\ HardFirstRace) =>
        /\ pc = "idle"
        /\ ret = "ValueError"
        /\ ssh = "closed"
        /\ retry_count = Len(io.attempts) - 1
        /\ Len(io.sleeps) = Len(io.attempts) - 1
        /\ io.spawns <= Len(io.attempts)

\* the third connect attempt of a call was denied, after two backoff sleeps
C23_Witness ==
    /\ op = "open"
    /\ Len(io.attempts) = 3
    /\ LastAttempt = <<"denied">>
    /\ io.sleeps = <<2, 4>>
    /\ ret = "ValueError"

\* the first n connect attempts of the call ended in the end of the stream or
\* a timeout of the first race
TransientUpTo(n) ==
    \A m \in 1..n : io.attempts[m] \in {<<"eof">>, <<"timeout">>}

\* C24: when the first k connect attempts end in the end of the stream or a
\* timeout and the next one reaches the prompt, open() returns self after
\* k + 1 spawns and k sleeps, the n-th of n times the unit delay; the handle
\* of each failed attempt is closed, and no handle of the call is open when
\* the loop turns to the next attempt
C24_RetriesThenSucceeds ==
    /\ (op = "open" /\ pc = "open") => ssh # "open"
    /\ \A k \in 0..(max_retries - 1) :
          (/\ op = "open"
           /\ Len(io.attempts) = k + 1
           /\ TransientUpTo(k)
           /\ io.attempts[k + 1] = <<"prompt">>) =>
              /\ pc = "idle"
              /\ ret = "self"
              /\ ssh = "open"
              /\ io.spawns = k + 1
              /\ io.closes = k
              /\ io.sleeps = [n \in 1..k |-> n * BACKOFF_UNIT_S]

\* open() succeeded at its fourth attempt, after sleeps of 2, 4 and 6 seconds
C24_Witness ==
    /\ op = "open"
    /\ Len(io.attempts) = 4
    /\ TransientUpTo(3)
    /\ io.attempts[4] = <<"prompt">>
    /\ io.sleeps = <<2, 4, 6>>
    /\ ret = "self"

\* the ways a connect attempt fails for the moment: the end of the stream or
\* a timeout, in the first race or in the race after the host key acceptance
TransientPaths ==
    {<<"eof">>, <<"timeout">>, <<"hostkey", "eof">>, <<"hostkey", "timeout">>}

\* C25: a call of open() makes at most 4 connect attempts; when 4 attempts
\* have failed for the moment it raises the connection error, having slept 3
\* times and not after the last attempt.  Inside the loop retry_count is the
\* number of attempts made and is below 4, so every turn brings the call
\* nearer to its end
C25_AtMostFourAttempts ==
    op = "open" =>
        /\ io.spawns <= max_retries
        /\ Len(io.attempts) <= max_retries
        /\ Len(io.sleeps) <= max_retries - 1
        /\ pc = "open" =>
              /\ retry_count = Len(io.attempts)
              /\ retry_count < max_retries
        /\ (/\ Len(io.attempts) = max_retries
            /\ \A m \in 1..max_retries : io.attempts[m] \in TransientPaths) =>
              /\ pc = "idle"
              /\ ret = "ConnectionError"
              /\ io.spawns = max_retries
              /\ io.sleeps = <<2, 4, 6>>
              /\ ssh = "closed"

\* four connect attempts have failed for the moment, the last one after the
\* host key acceptance
C25_Witness ==
    /\ op = "open"
    /\ Len(io.attempts) = 4
    /\ \A m \in 1..3 : io.attempts[m] \in {<<"eof">>, <<"timeout">>}
    /\ io.attempts[4] = <<"hostkey", "timeout">>
    /\ ret = "ConnectionError"
    /\ Len(io.sleeps) = 3

\* C26: after a passphrase challenge with a passphrase configured, open()
\* sends the passphrase and returns self on the prompt only; on a denial, the
\* end of the stream or a timeout of the second race the call is over with an
\* error and no further connect attempt is made
C26_SecondRaceNeverRetried ==
    (/\ op = "open"
     /\ io.attempts # <<>>
     /\ password
     /\ Len(LastAttempt) = 2
     /\ LastAttempt[1] = "passphrase") =>
        /\ pc = "idle"
        /\ LastAttempt[2] = "prompt" => (ret = "self" /\ ssh = "open")
        /\ LastAttempt[2] # "prompt" => ret = "ValueError"
        /\ Len(io.sleeps) = Len(io.attempts) - 1

\* the connect attempts of the call that met the host key prompt
HostKeyAttempts ==
    {m \in 1..Len(io.attempts) : io.attempts[m][1] = "hostkey"}

\* the acceptances the call has sent
Acceptances == {m \in 1..Len(io.sends) : io.sends[m] = "yes"}

\* C27: an attempt that meets the host key prompt sends the acceptance once
\* and runs the race once more, in which the host key prompt is not looked
\* for again: the prompt returns self; a password challenge, a denial, a
\* passphrase challenge without a passphrase and a passphrase that is denied
\* raise and end the call; the end of the stream or a timeout closes the
\* handle and counts as a failed attempt of the retry loop
C27_HostKeyOneLevel ==
    (op = "open" /\ io.attempts # <<>>) =>
        /\ Cardinality(Acceptances) = Cardinality(HostKeyAttempts)
        /\ LastAttempt[1] = "hostkey" =>
              LET k == LastAttempt[2]
                  n == Len(io.attempts)
              IN  /\ k # "hostkey"
                  /\ k = "prompt" => (pc = "idle" /\ ret = "self"
                                      /\ ssh = "open")
                  /\ k \in {"password", "denied"} =>
                        /\ pc = "idle" /\ ret = "ValueError"
                        /\ Len(io.sleeps) = n - 1
                  /\ (k = "passphrase" /\ ~password) =>
                        /\ pc = "idle" /\ ret = "ValueError"
                        /\ Len(io.sleeps) = n - 1
                  /\ (k = "passphrase" /\ password) =>
                        /\ LastAttempt[3] = "prompt" =>
                              (pc = "idle" /\ ret = "self" /\ ssh = "open")
                        /\ LastAttempt[3] = "denied" =>
                              /\ pc = "idle" /\ ret = "ValueError"
                              /\ Len(io.sleeps) = n - 1
                  /\ k \in {"eof", "timeout"} =>
                        /\ ssh = "closed"
                        /\ retry_count = n
                        /\ n < max_retries =>
                              (pc = "open" /\ Len(io.sleeps) = n)
                        /\ n = max_retries =>
                              (pc = "idle" /\ ret = "ConnectionError")

\* a call met the host key prompt twice: the first attempt timed out after
\* the acceptance, the second reached the prompt
C27_Witness ==
    /\ op = "open"
    /\ io.attempts = <<<<"hostkey", "timeout">>, <<"hostkey", "prompt">>>>
    /\ io.sends = <<"yes", "yes">>
    /\ io.sleeps = <<2>>
    /\ ret = "self"

\* the handles spawned by the channel that are open
OpenHandles == leaked + (IF ssh = "open" THEN 1 ELSE 0)

\* C28: whatever calls of open, command and close were made on a channel, at
\* most one handle spawned by it is open
C28_AtMostOneHandle == OpenHandles <= 1

\* C29: a command() that finds the channel open sends its text once and
\* waits once, for the given marker or, when none is given, for the prompt;
\* a match returns the output before the marker, the end of the stream raises
\* the aborted-connection error, a timeout raises the timeout error.  It
\* neither closes nor replaces the handle, and a command() that follows a
\* timeout is sent on the same handle
C29_CommandOutcomes ==
    [][/\ (op' = "command" /\ ssh = "open") =>
             /\ io'.sends = <<"commandline">>
             /\ io'.expects = 1
             /\ io'.spawns = 0 /\ io'.closes = 0
             /\ io'.given = "none" => io'.waited_for = "prompt"
             /\ io'.given # "none" => io'.waited_for = io'.given
             /\ io'.race \in {"match", "eof", "timeout"}
             /\ io'.race = "match" => ret' = "before"
             /\ io'.race = "eof" => ret' = "ConnectionAbortedError"
             /\ io'.race = "timeout" => ret' = "TimeoutError"
             /\ ssh' = "open" /\ leaked' = leaked
       /\ (op = "command" /\ ret = "TimeoutError" /\ op' = "command") =>
             /\ ret' # "ConnectionError"
             /\ io'.sends = <<"commandline">>]_vars

\* a command() given no marker has timed out waiting for the prompt, and the
\* channel is open
C29_Witness ==
    /\ op = "command"
    /\ ret = "TimeoutError"
    /\ io.given = "none"
    /\ io.waited_for = "prompt"
    /\ io.sends = <<"commandline">>
    /\ ssh = "open"

\* C30: close() returns True whatever it finds and leaves no handle of the
\* channel open behind self.ssh: on an open channel it sends "exit" and, when
\* the send went through, waits once for the end of the stream and closes the
\* handle by force; on a closed or never opened channel it sends nothing,
\* waits for nothing and changes nothing.  A command() right after a close()
\* raises the connection error without any send
C30_CloseIdempotent ==
    [][/\ op' = "close" =>
             /\ ret' = "True"
             /\ pc' = "idle"
             /\ ssh' # "open"
             /\ leaked' = leaked
             /\ io'.spawns = 0
             /\ ssh = "open" =>
                   /\ ssh' = "closed"
                   /\ io'.sends = <<"exit">>
                   /\ io'.race \in {"eof", "timeout"} =>
                         (io'.expects = 1 /\ io'.closes = 1)
             /\ ssh # "open" => (ssh' = ssh /\ io' = NoIo)
       /\ (op = "close" /\ op' = "command") =>
             (ret' = "ConnectionError" /\ io' = NoIo)]_vars

\* close() was called on a channel whose handle was closed already
C30_Witness ==
    /\ op = "close"
    /\ ssh = "closed"
    /\ io = NoIo
    /\ ret = "True"

\* C38: when open() ends by raising, the handle of the channel is closed, so
\* that the command() that follows raises the connection error without I/O
C38_FailedOpenLeavesClosed ==
    (op = "open" /\ pc = "idle" /\ ret \in {"ValueError", "ConnectionError"})
        => ssh # "open"

-----------------------------------------------------------------------------
(* Further properties of start_and_wait and of the provisioning flag *)

\* C39: a call of start_and_wait issues at most one start call and at most
\* one terminate call, whatever the backend answers and however long the
\* wait loop polls; the terminate call is the cleanup of a state that was
\* Failed at the first check
C39_OneStartOneTerminate ==
    op = SAW =>
        /\ calls.start <= 1
        /\ calls.terminate <= 1
        /\ calls.start_failed <= calls.start
        /\ calls.terminate = 1 => first_status = EXPERIMENT_FAILED

\* the wait loop has polled three times after the start call and the state
\* is NotStarted
C39_Witness ==
    /\ op = SAW
    /\ pc = "wait"
    /\ poll_count = 3
    /\ status = EXPERIMENT_NOT_STARTED
    /\ calls.start = 1
    /\ calls.status = 5

\* C40: in every state reached by check_status, start_and_wait and terminate
\* the still_provisioning flag is true exactly when the state is
\* Provisioning or Provisioned
C40_FlagFollowsState ==
    still_provisioning <=> status \in InProgress

-----------------------------------------------------------------------------
(* Properties of the file transfers *)

-----------------------------------------------------------------------------
(* Properties of the configuration *)

\* C32: when the credentials of the sessions are missing (no USER, no CERT or
\* no key file), the failure is reported before anything is asked of the
\* provisioning backend and before any process is spawned
C32_ConfigErrorBeforeActivity ==
    ~env_ok =>
        /\ calls.status = 0
        /\ calls.manifest = 0
        /\ calls.start = 0
        /\ calls.terminate = 0
        /\ io.spawns = 0

-----------------------------------------------------------------------------
(* SSHConnection.open as one step, for the drivers that call it and go on  *)
(* with what it returns                                                     *)

\* SSHConnection.open, lines 66-174: what a call whose loop is at retry_count
\* rc with self.ssh = h can end with, over all the attempts it can meet: what
\* it returns or raises and the handle it leaves
RECURSIVE OpenResults(_, _, _)
OpenResults(rc, h, pw) ==
    UNION {LET spawned == path # <<"spawn_error">>
               a == IF spawned THEN Attempt(path, pw) ELSE Caught(<<>>, 0)
               left == IF spawned
                       THEN (IF a.closed THEN "closed" ELSE "open")
                       ELSE (IF h = "none" THEN "none" ELSE "closed")
           IN  IF a.result # "retry"
               THEN {[ret |-> a.result, ssh |-> left]}
               ELSE IF LoopAgain(rc + 1)
               THEN OpenResults(rc + 1, left, pw)
               ELSE {[ret |-> "ConnectionError", ssh |-> left]}
           : path \in Paths(pw)}

\* the three ends of the race of command(), lines 196-204
CommandRaces == {"match", "eof", "timeout"}

\* SSHConnection.close on an open handle, lines 283-299: the handle it leaves
Closed(o) == IF o = "oserror" THEN AfterOsError ELSE "closed"

\* what the drivers leave alone: the history of the library calls and what
\* the controller holds is changed by the controller only
libVars == <<password, retry_count, io, pc, op, ret>>

-----------------------------------------------------------------------------
(* The driver of the wired profile, src/main.py: the loop of run() that     *)
(* brings the network up, from the point where both nodes are built         *)

\* line 43: the limit the loop compares retry_count with
NOS1_MAX_ATTEMPTS == 10

\* lines 197 and 203: the pause after each of the two processes is started
NOS1_SETTLE_S == 20

\* the attempts followed at most
MaxNetAttempts == 12

Enb1 == Desc(TRUE, "enb1", "dict", "pc1.emulab", "10.0.0.1")
Rue1 == Desc(TRUE, "rue1", "dict", "pc2.emulab", "10.0.0.2")

\* lines 41-42 of run(), reached with a Ready experiment whose manifest names
\* both nodes; the channels were used by child processes only, so that the
\* one of rue1 is as it was constructed.  procs is the state of the two
\* processes of _start_nos1_network and raised the exception that ended the
\* run
InitNet ==
    /\ \E pw \in BOOLEAN : ChanInit(pw)
    /\ mpc = "while"
    /\ run = [driver |-> "main", nos1_up |-> FALSE, retry_count |-> 0,
              attempts |-> 0, slept_s |-> 0, procs |-> "none",
              raised |-> "none"]
    /\ experiment_name = DefaultName
    /\ status = EXPERIMENT_READY
    /\ still_provisioning = FALSE
    /\ manifests = SomeManifests(<<DocList(<<Enb1, Rue1>>)>>)
    /\ nodes = ParseManifests(manifests, NoNodes, TRUE).nodes
    /\ env_ok = TRUE
    /\ pc = "idle"
    /\ poll_count = 0
    /\ op = "none"
    /\ ret = "none"
    /\ calls = NoCalls
    /\ last_call = "none"
    /\ first_status = "none"
    /\ last_resp = NoResponse
    /\ pre = Pre

\* line 43: the condition of the loop
NetGoesOn(r) == ~r.nos1_up /\ r.retry_count < NOS1_MAX_ATTEMPTS

\* lines 43-44: the condition holds and one more attempt begins; the body of
\* the loop assigns nos1_up only
NetWhile ==
    /\ mpc = "while"
    /\ NetGoesOn(run)
    /\ run.attempts < MaxNetAttempts
    /\ mpc' = "start"
    /\ run' = [run EXCEPT !.attempts = @ + 1]
    /\ UNCHANGED <<ssh, leaked, libVars, expVars>>

\* _start_nos1_network, lines 193-203: both processes are started, with a
\* pause after each
NetStart ==
    /\ mpc = "start"
    /\ mpc' = "check"
    /\ run' = [run EXCEPT !.procs = "running",
                          !.slept_s = @ + 2 * NOS1_SETTLE_S]
    /\ UNCHANGED <<ssh, leaked, libVars, expVars>>

\* an exception no handler of main.py catches ends the run
NetRaised(e, h) ==
    /\ mpc' = "raised"
    /\ run' = [run EXCEPT !.raised = e]
    /\ ssh' = h

\* lines 204-210 with _check_nos1_network, lines 212-222: a session to rue1 is
\* opened, two commands are run, the output of the second is searched for
\* the interface and its address, the session is closed; when the network is
\* not up the two processes are killed.  The channel is never open when the
\* session is opened, so that no handle is dropped
NetCheck ==
    /\ mpc = "check"
    /\ \E r \in OpenResults(0, ssh, password) :
          IF r.ret # "self"
          THEN NetRaised(r.ret, r.ssh)
          ELSE \E i1 \in CommandRaces, i2 \in CommandRaces,
                  if_exists \in BOOLEAN, ip_exists \in BOOLEAN,
                  o \in {"eof", "timeout", "oserror"} :
                  IF i1 # "match"
                  THEN NetRaised(CommandResult(i1), r.ssh)
                  ELSE IF i2 # "match"
                  THEN NetRaised(CommandResult(i2), r.ssh)
                  ELSE /\ ssh' = Closed(o)
                       /\ mpc' = "while"
                       /\ run' = [run EXCEPT
                                    !.nos1_up = if_exists /\ ip_exists,
                                    !.procs = IF if_exists /\ ip_exists
                                              THEN "running" ELSE "killed"]
    /\ UNCHANGED <<leaked, libVars, expVars>>

\* lines 47-54: after the loop the network is used when it is up, and the
\* run goes to its finish step
NetAfterLoop ==
    /\ mpc = "while"
    /\ ~NetGoesOn(run)
    /\ mpc' = IF run.nos1_up THEN "ping" ELSE "finish"
    /\ UNCHANGED <<run, ssh, leaked, libVars, expVars>>

NextNet == NetWhile \/ NetStart \/ NetCheck \/ NetAfterLoop

NetSpec == InitNet /\ [][NextNet]_vars

(* Properties of the bring-up loop *)
\* C37: the loop that brings the network up makes at most ten attempts: when
\* the network never comes up it ends after the tenth
C37_AtMostTenAttempts == run.attempts <= NOS1_MAX_ATTEMPTS

-----------------------------------------------------------------------------
(* The driver of the deploy-node profile, src/example.py: run() with        *)
(* _start_powder_experiment, _setup_deploy_node and _finish                 *)

\* lines 34-36
TEST_SUCCEEDED == 0
TEST_FAILED == 1
TEST_NOT_STARTED == 2

\* the exit status of an interpreter that ends with an exception no handler
\* caught
UNCAUGHT_EXIT == 1

\* lines 121-122 and the timeout of the probe command, line 136
max_wait_time == 300
wait_interval == 10
check_timeout == 15

\* results of open() by password and by the handle the call finds
OpenTable ==
    [pw \in BOOLEAN, h \in {"none", "closed", "open"} |->
        OpenResults(0, h, pw)]

\* the driver at line 51, with the controller of line 92 constructed.
\* test_status is the argument of _finish and exit_status what the process
\* ends with; outcome tells why the run ended and escaped whether an
\* exception left run(); exp_status is what start_and_wait returned; opens
\* counts the calls of open(), commands those of command(), dead tells
\* whether a command met the end of the stream and reused whether one was
\* issued after that; elapsed is the time the probe loop has taken, in
\* seconds, counting the sleeps and the timeouts; terminates counts
\* the teardown calls of the run and failed those that were refused;
\* finish_terminated tells whether _finish issued one, and at_end is the
\* experiment state when _finish was entered or the exception escaped
RunStart ==
    [driver |-> "example", test_status |-> "none", exit_status |-> "none",
     outcome |-> "none", escaped |-> FALSE, exp_status |-> "none",
     opens |-> 0, commands |-> 0, dead |-> FALSE, reused |-> FALSE,
     elapsed |-> 0,
     terminates |-> 0, failed |-> 0, failed_before |-> 0,
     finish_terminated |-> FALSE, at_end |-> "none"]

InitMain ==
    /\ \E pw \in BOOLEAN : ChanInit(pw)
    /\ mpc = "start"
    /\ run = RunStart
    /\ experiment_name = DefaultName
    /\ status = EXPERIMENT_NOT_STARTED
    /\ still_provisioning = FALSE
    /\ nodes = NoNodes
    /\ manifests = NoManifests
    /\ env_ok \in BOOLEAN
    /\ pc = "idle"
    /\ poll_count = 0
    /\ op = "none"
    /\ ret = "none"
    /\ calls = NoCalls
    /\ last_call = "none"
    /\ first_status = "none"
    /\ last_resp = NoResponse
    /\ pre = Pre

\* line 96: start_and_wait is called
RunStartAndWait ==
    /\ mpc = "start"
    /\ op = "none"
    /\ SAW_Check

\* line 96: start_and_wait is running
RunWaiting == mpc = "start" /\ op = "start_and_wait"

\* line 96: start_and_wait has returned or raised
RunReturned == RunWaiting /\ pc = "idle"

\* the history of start_and_wait as the run keeps it
Started(r) ==
    [r EXCEPT !.exp_status = ret,
              !.terminates = calls.terminate,
              !.failed = calls.terminate_failed]

\* an exception leaves run(): the interpreter prints it and exits
Escapes(r) ==
    [r EXCEPT !.escaped = TRUE,
              !.exit_status = UNCAUGHT_EXIT,
              !.failed_before = r.failed,
              !.at_end = status]

\* run() calls self._finish(test_status)
Finishes(r, out, test_status) ==
    [r EXCEPT !.outcome = out, !.test_status = test_status]

\* self.exp.terminate() called by the driver and answered with t: what
\* PowderExperiment.terminate does, and the count of the run
DriverTerminate(t) ==
    LET x == Terminate(Fields, t)
    IN  /\ SetFields(x.c)
        /\ ret' = IF x.raised THEN "raised" ELSE x.c.status
        /\ calls' = CountAnswer(NoCalls, "terminate", t.code)
        /\ op' = "terminate"
        /\ last_call' = "terminate"
        /\ first_status' = "none"
        /\ last_resp' = NoResponse
        /\ pre' = Pre

Terminated(r, t) ==
    [r EXCEPT !.terminates = @ + 1,
              !.failed = @ + (IF t.code = RESPONSE_SUCCESS THEN 0 ELSE 1)]

\* what a driver step without a call of the controller leaves alone
ctlVars == <<op, ret, expVars>>

\* what a driver step with a teardown call leaves alone
ctlRest == <<experiment_name, env_ok, poll_count>>

\* the KeyError of terminate(), inside start_and_wait (line 94 of
\* experiment.py), is caught by nothing on its way out of run()
RunEscaped ==
    /\ RunReturned
    /\ ret = "raised"
    /\ mpc' = "exited"
    /\ run' = Escapes(Started(run))
    /\ UNCHANGED <<chanVars, pc, ctlVars>>

\* lines 97-103 and 51-52: the experiment is not Ready; it is terminated
\* unless it is Null, and the run finishes as not started
RunNotReady ==
    /\ RunReturned
    /\ ret \notin {"raised", EXPERIMENT_READY}
    /\ IF status # EXPERIMENT_NULL
       THEN \E t \in TerminateResponses :
               /\ DriverTerminate(t)
               /\ IF Terminate(Fields, t).raised
                  THEN /\ mpc' = "exited"
                       /\ run' = [Escapes(Terminated(Started(run), t))
                                    EXCEPT !.outcome = "could_not_provision"]
                  ELSE /\ mpc' = "finish"
                       /\ run' = Finishes(Terminated(Started(run), t),
                                          "could_not_provision",
                                          TEST_NOT_STARTED)
               /\ UNCHANGED ctlRest
       ELSE /\ mpc' = "finish"
            /\ run' = Finishes(Started(run), "could_not_provision",
                               TEST_NOT_STARTED)
            /\ UNCHANGED ctlVars
    /\ UNCHANGED <<chanVars, pc>>

\* lines 105-108 and 51-52: Ready without 'deploy-node' in the node map
RunNodeMissing ==
    /\ RunReturned
    /\ ret = EXPERIMENT_READY
    /\ "deploy-node" \notin DOMAIN nodes
    /\ \E t \in TerminateResponses :
          /\ DriverTerminate(t)
          /\ IF Terminate(Fields, t).raised
             THEN /\ mpc' = "exited"
                  /\ run' = [Escapes(Terminated(Started(run), t))
                               EXCEPT !.outcome = "node_missing"]
             ELSE /\ mpc' = "finish"
                  /\ run' = Finishes(Terminated(Started(run), t),
                                     "node_missing", TEST_NOT_STARTED)
    /\ UNCHANGED <<chanVars, pc, ctlRest>>

\* lines 109-111 and 54: Ready with 'deploy-node'.  The run keeps what it
\* needs of the history of start_and_wait, and the history of the calls of
\* the controller starts afresh
RunReady ==
    /\ RunReturned
    /\ ret = EXPERIMENT_READY
    /\ "deploy-node" \in DOMAIN nodes
    /\ mpc' = "setup"
    /\ run' = Started(run)
    /\ calls' = NoCalls
    /\ last_call' = "none"
    /\ first_status' = "none"
    /\ last_resp' = NoResponse
    /\ pre' = Pre
    /\ UNCHANGED <<chanVars, pc, op, ret, experiment_name, status,
                   still_provisioning, nodes, manifests, env_ok, poll_count>>

\* _setup_deploy_node returns False, lines 57-58
StepFailed(r) == Finishes(r, "step_failed", TEST_FAILED)

\* line 125: the session to the deploy node is opened; what open() raises is
\* caught at line 188, where ssh_deploy is no local yet
RunOpen ==
    /\ mpc = "setup"
    /\ \E r \in OpenTable[password, ssh] :
          /\ ssh' = r.ssh
          /\ IF r.ret = "self"
             THEN /\ mpc' = "probe"
                  /\ run' = [run EXCEPT !.opens = @ + 1]
             ELSE /\ mpc' = "finish"
                  /\ run' = StepFailed([run EXCEPT !.opens = @ + 1])
    /\ UNCHANGED <<password, retry_count, leaked, io, pc, ctlVars>>

\* one more command() on the channel, ended by i
Commanded(r, i) ==
    [r EXCEPT !.commands = @ + 1,
              !.reused = @ \/ r.dead,
              !.dead = @ \/ i = "eof"]

\* lines 131-147: one turn of the probe loop.  The prompt of the probe ends
\* the loop; TimeoutError and ConnectionAbortedError are caught at line 140,
\* the loop sleeps and tests its condition again
RunProbe ==
    /\ mpc = "probe"
    /\ run.elapsed < max_wait_time
    /\ \E i \in CommandRaces :
          /\ mpc' = IF i = "match" THEN "deploy" ELSE "probe"
          /\ run' = [Commanded(run, i) EXCEPT
                       !.elapsed =
                           CASE i = "match" -> @
                             [] i = "eof" -> @ + wait_interval
                             [] i = "timeout" ->
                                   @ + check_timeout + wait_interval]
    /\ UNCHANGED <<chanVars, pc, ctlVars>>

\* lines 149-152: the time is up, the session is closed and the step fails
RunProbeTimedOut ==
    /\ mpc = "probe"
    /\ run.elapsed >= max_wait_time
    /\ \E o \in {"eof", "timeout", "oserror"} : ssh' = Closed(o)
    /\ mpc' = "finish"
    /\ run' = StepFailed(run)
    /\ UNCHANGED <<password, retry_count, leaked, io, pc, ctlVars>>

\* lines 169-198: the command chain, the copy of the log, the close and the
\* search of the log; what command() raises is caught at line 188, where the
\* log is copied and the session closed as well
RunDeploy ==
    /\ mpc = "deploy"
    /\ \E i \in CommandRaces, t \in Transfers,
          o \in {"eof", "timeout", "oserror"}, found \in BOOLEAN :
          /\ ssh' = Closed(o)
          /\ run' = IF i = "match" /\ found
                    THEN Finishes(Commanded(run, i), "success",
                                  TEST_SUCCEEDED)
                    ELSE StepFailed(Commanded(run, i))
    /\ mpc' = "finish"
    /\ UNCHANGED <<password, retry_count, leaked, io, pc, ctlVars>>

\* line 340
NeedsTerminate(st) ==
    st \notin {EXPERIMENT_NULL, EXPERIMENT_NOT_STARTED}

\* _finish, lines 335-357: the experiment is terminated unless it is Null or
\* NotStarted, then the process exits with the test status
RunFinish ==
    /\ mpc = "finish"
    /\ mpc' = "exited"
    /\ IF NeedsTerminate(status)
       THEN \E t \in TerminateResponses :
               /\ DriverTerminate(t)
               /\ LET r == [Terminated(run, t) EXCEPT
                              !.finish_terminated = TRUE,
                              !.failed_before = run.failed,
                              !.at_end = status]
                  IN  run' = IF Terminate(Fields, t).raised
                             THEN [r EXCEPT !.escaped = TRUE,
                                            !.exit_status = UNCAUGHT_EXIT]
                             ELSE [r EXCEPT
                                     !.exit_status = run.test_status]
               /\ UNCHANGED ctlRest
       ELSE /\ run' = [run EXCEPT !.exit_status = run.test_status,
                                  !.failed_before = run.failed,
                                  !.at_end = status]
            /\ UNCHANGED ctlVars
    /\ UNCHANGED <<chanVars, pc>>

NextMain ==
    \/ RunStartAndWait
    \/ (RunWaiting /\ SAW_Refetch)
    \/ (RunWaiting /\ SAW_Terminate)
    \/ (RunWaiting /\ SAW_Start)
    \/ (RunWaiting /\ SAW_PostStart)
    \/ (RunWaiting /\ SAW_Poll)
    \/ (RunWaiting /\ SAW_Final)
    \/ RunEscaped
    \/ RunNotReady
    \/ RunNodeMissing
    \/ RunReady
    \/ RunOpen
    \/ RunProbe
    \/ RunProbeTimedOut
    \/ RunDeploy
    \/ RunFinish

MainSpec == InitMain /\ [][NextMain]_vars

(* Properties of the main flow *)
\* C33: a run that exits through _finish tells its outcomes apart by the exit
\* status: could not provision, step failed, required node missing and
\* success each have a status of their own
C33_ExitStatusPerOutcome ==
    (mpc = "exited" /\ ~run.escaped) =>
        /\ run.outcome = "could_not_provision" =>
              run.exit_status = TEST_NOT_STARTED
        /\ run.outcome = "step_failed" => run.exit_status = TEST_FAILED
        /\ run.outcome = "success" => run.exit_status = TEST_SUCCEEDED
        /\ run.outcome = "node_missing" =>
              run.exit_status \notin
                  {TEST_NOT_STARTED, TEST_FAILED, TEST_SUCCEEDED}

\* C34: after a command on the channel of the deploy node met the end of the
\* stream, no further command is issued on that channel
C34_DeadChannelNotReused == ~run.reused

\* C35: when the process exits with the experiment neither Null nor
\* NotStarted, a terminate call was issued in the run, and when one had
\* failed before the exit one more was issued at the exit
C35_TerminateBeforeExit ==
    (mpc = "exited" /\ NeedsTerminate(run.at_end)) =>
        /\ run.terminates >= 1
        /\ run.failed_before > 0 => run.finish_terminated

\* C36: a session is opened only when start_and_wait returned Ready and the
\* node map holds 'deploy-node'; in every other run no session is opened, a
\* terminate call is issued unless nothing is left to terminate, and the
\* process exits with the status of a run that could not start
C36_SessionOnlyWhenReady ==
    LET ready == /\ run.exp_status = EXPERIMENT_READY
                 /\ "deploy-node" \in DOMAIN nodes
    IN  /\ run.opens > 0 => ready
        /\ (mpc = "exited" /\ ~ready) =>
              /\ run.opens = 0
              /\ run.terminates >= 1 \/ ~NeedsTerminate(run.at_end)
              /\ run.exit_status = TEST_NOT_STARTED

====
